---- MODULE Spec2Model ----
(***************************************************************************)
(* Task scheduling engine of afk2-auto-script: the registry (TaskManager), *)
(* the scheduler (TaskScheduler: promotion loop, worker loops) and the     *)
(* handler boundary, as a state machine.                                   *)
(*                                                                         *)
(* Threads: one caller thread (the GUI), the promotion loop                *)
(* (_scheduler_loop) and max_workers worker loops (_worker_loop).  Every   *)
(* registry operation runs under TaskManager._lock and is one atomic step; *)
(* a thread may be preempted between two such steps.                       *)
(***************************************************************************)
EXTENDS Integers, Sequences, FiniteSets, TLC

\* ------------------------------------------------------------------ bounds
MaxTasks == 2       \* create_task calls
MaxWorkers == 1     \* max_workers given to TaskScheduler
MaxRetries == 1     \* largest max_retries given to create_task
MaxTime == 1        \* readings of the system clock: 0..MaxTime
MaxPuts == 2        \* _enqueue_task calls
MaxBatch == 7       \* create_task and _enqueue_task calls when only the dispatch order is studied
MaxCalls == 4       \* registry calls whose outcome is observed
MaxListeners == 2   \* add_task_listener calls
MaxInvokers == 2    \* threads inside TaskExecutor.execute at the same time
MaxInvocations == 2 \* TaskExecutor.execute calls when only the executor is studied
MaxJobs == 1        \* schedule_recurring_task calls
MaxStarts == 3      \* start() calls when the loop threads are counted
MaxQueued == 3      \* tasks enqueued when the workers' progress is studied

Listeners == 1..MaxListeners
\* The callbacks given to add_task_listener: the odd ones raise when invoked.
ListenerRaises(listener) == listener % 2 = 1

TaskIds == 1..(MaxTasks + MaxBatch)    \* room for the ids of either kind of run
Workers == 1..MaxWorkers
None == -1          \* Python's None for an optional instant / task

\* ------------------------------------------------------------ models/task.py
PENDING == "pending"
RUNNING == "running"
PAUSED == "paused"
COMPLETED == "completed"
FAILED == "failed"
CANCELLED == "cancelled"
RETRYING == "retrying"
SKIPPED == "skipped"
\* The members of the enum TaskStatus.
TaskStatus == {PENDING, RUNNING, PAUSED, COMPLETED, FAILED, CANCELLED, RETRYING, SKIPPED}
\* The name _enqueue_task asks the enum for: TaskStatus.QUEUED.
QUEUED == "queued"

\* TaskPriority, by enum value.
LOW == 0
NORMAL == 1
HIGH == 2
URGENT == 3
TaskPriority == {LOW, NORMAL, HIGH, URGENT}

\* Task type tags; the handler registered for "noop" returns, the one for
\* "noop_fail" always raises.
TaskTypes == {"noop", "noop_fail"}
HandlerRaises(task_type) == task_type = "noop_fail"

\* A TaskInfo object never created (a slot of obj not yet used).
NoTask == [status |-> PENDING, priority |-> NORMAL, retry_count |-> 0,
           max_retries |-> 0, dependencies |-> {}, task_type |-> "noop",
           scheduled_time |-> None]
\* No entry in _task_results for the id.
NoResult == [status |-> "absent", ended |-> FALSE]

VARIABLES
    nextId,         \* ids 1..nextId-1 have been created (uuid4: never reused)
    tasks,          \* TaskManager._tasks: the ids in the registry
    obj,            \* the TaskInfo objects, by id (an object outlives its registry entry)
    task_results,   \* TaskManager._task_results, by id
    task_queue,     \* TaskManager._task_queue
    pq,             \* TaskScheduler._priority_queue: its heap list of entries (pv, ts, task)
    nput,           \* number of put calls made on _priority_queue
    clock,          \* number of _enqueue_task calls begun
    scheduled,      \* TaskScheduler._scheduled_tasks, in insertion order
    now,            \* the system clock, as datetime.now() and time.time() read it
    running,        \* TaskScheduler._running
    permits,        \* TaskScheduler._available_workers
    worker,         \* each worker loop: its position and the task it holds
    sched,          \* the promotion loop: its position and the entry it is about to put
    caller,         \* the caller thread inside schedule_task
    hist,           \* per task: what has happened to it (history, not program state)
    task_listeners, \* TaskManager._task_listeners: for each listener, whether it raises
    obs,            \* the last registry call observed: how it ended and whom it notified
    execution_stats, \* TaskExecutor._execution_stats: per type, the dicts bound to the key so far
    exec,           \* per thread inside TaskExecutor.execute: its position and locals
    detached,       \* handler threads left running by a timeout
    invoked,        \* per type: TaskExecutor.execute calls made
    task_timeout,   \* per task: whether metadata['timeout'] is set
    cron_jobs,      \* TaskScheduler._cron_jobs, by job
    cron,           \* the recurring loop: its position, its locals, what its last pass did
    lock,           \* TaskManager._lock: the worker inside a with self._lock, or None
    threads         \* the loop threads alive, of every start(): how many of each kind

\* The state the scheduling actions read and write; each of them leaves the
\* rest alone (Unobserved, conjoined where a specification uses the action).
sched_vars == <<nextId, tasks, obj, task_results, task_queue, pq, nput, clock, scheduled,
                now, running, permits, worker, sched, caller, hist>>

\* The state of the TaskExecutor and of the threads inside it.
exec_vars == <<execution_stats, exec, detached, invoked, task_timeout>>

\* The recurring jobs and the loop that materializes them.
cron_vars == <<cron_jobs, cron>>

vars == <<nextId, tasks, obj, task_results, task_queue, pq, nput, clock, scheduled,
          now, running, permits, worker, sched, caller, hist, task_listeners, obs,
          execution_stats, exec, detached, invoked, task_timeout, cron_jobs, cron, lock,
          threads>>

\* The task types given to the executor: those with a registered executor
\* function and one without.
ExecTypes == TaskTypes \cup {"unregistered"}
HasHandler(task_type) == task_type \in TaskTypes

\* The threads that call TaskExecutor.execute: the scheduler's worker threads.
Invokers == 1..MaxInvokers

Jobs == 1..MaxJobs

\* No entry in _cron_jobs.
NoJob == [present |-> FALSE, enabled |-> FALSE, next_run |-> None, interval |-> None]

\* The recurring loop before start(): nothing found due, nothing created.
NoCron == [pc |-> "off", job |-> None, now |-> None, task |-> None,
           due |-> [j \in Jobs |-> None], made |-> [j \in Jobs |-> 0], since |-> {}]

\* A thread that is not inside execute.
NoExec == [pc |-> "idle", id |-> None, task_type |-> "none", timeout |-> FALSE,
           thread |-> "none", success |-> FALSE, timed_out |-> FALSE, ref |-> 0, load |-> 0]

\* No call observed yet.
\* No start() yet: no loop thread.
NoThreads == [starts |-> 0, worker |-> 0, scheduler |-> 0, cron |-> 0]

NoCall == [n |-> 0, op |-> "none", id |-> None, ret |-> "None", notified |-> <<>>, value |-> None]

NoHist == [trail |-> "none", invocations |-> 0, manual |-> FALSE,
           cancelledEarly |-> FALSE, everCompleted |-> FALSE, dispatched |-> FALSE]

Init ==
    /\ nextId = 1
    /\ tasks = {}
    /\ obj = [i \in TaskIds |-> NoTask]
    /\ task_results = [i \in TaskIds |-> NoResult]
    /\ task_queue = <<>>
    /\ pq = <<>>
    /\ nput = 0
    /\ clock = 0
    /\ scheduled = <<>>
    /\ now = 0
    /\ running = FALSE
    /\ permits = MaxWorkers
    /\ worker = [w \in Workers |-> [pc |-> "off", task |-> None]]
    /\ sched = [pc |-> "off", task |-> None, ts |-> None]
    /\ caller = [pc |-> "idle", task |-> None, ts |-> None]
    /\ hist = [i \in TaskIds |-> NoHist]
    /\ task_listeners = <<>>
    /\ obs = NoCall
    /\ execution_stats = [task_type \in ExecTypes |-> <<>>]
    /\ exec = [i \in Invokers |-> NoExec]
    /\ detached = 0
    /\ invoked = [task_type \in ExecTypes |-> 0]
    /\ task_timeout = [i \in TaskIds |-> FALSE]
    /\ cron_jobs = [j \in Jobs |-> NoJob]
    /\ cron = NoCron
    /\ lock = None
    /\ threads = NoThreads

\* ------------------------------------------------------- history bookkeeping
\* Where task i stands on the path Pending -> Queued -> Running since it was
\* last Pending, after its status is set to s.
TrailNext(t, s) ==
    IF s = PENDING THEN "pending"
    ELSE IF s = QUEUED /\ t = "pending" THEN "queued"
    ELSE IF s = RUNNING /\ t = "queued" THEN "running"
    ELSE t

HistStatus(h, id, s) ==
    [h EXCEPT ![id].trail = TrailNext(@, s),
              ![id].everCompleted = @ \/ s = COMPLETED]

\* Some worker holds task id (it has dequeued it and not yet finished with it).
HeldByWorker(id) == \E w \in Workers : worker[w].task = id

\* ------------------------------------------------------------- TaskManager
InsertAt(q, k, x) == SubSeq(q, 1, k) \o <<x>> \o SubSeq(q, k + 1, Len(q))
InSeq(q, x) == \E k \in 1..Len(q) : q[k] = x
RemoveFirst(q, x) ==
    IF InSeq(q, x)
    THEN LET k == CHOOSE j \in 1..Len(q) : q[j] = x /\ \A m \in 1..(j - 1) : q[m] # x
         IN  SubSeq(q, 1, k - 1) \o SubSeq(q, k + 1, Len(q))
    ELSE q

\* _add_to_queue(task_id), given the queue q, the registry t and the objects o.
add_to_queue(q, id, t, o) ==
    IF InSeq(q, id) THEN q
    ELSE IF o[id].priority = HIGH THEN InsertAt(q, 0, id)
    ELSE IF o[id].priority = LOW THEN Append(q, id)
    ELSE LET high_count ==
                 Cardinality({k \in 1..Len(q) : q[k] \in t /\ o[q[k]].priority = HIGH})
         IN  InsertAt(q, high_count, id)

\* The end_time rule of update_task_status.
EndsResult(status) == status \in {COMPLETED, FAILED, CANCELLED}

\* update_task_status(task_id, status) on a task of the registry: the task's
\* status and its result record (the notification of the listeners is part of
\* the observed calls).
StatusSet(o, id, status) == [o EXCEPT ![id].status = status]
ResultSet(r, id, status) ==
    [r EXCEPT ![id] = [status |-> status, ended |-> @.ended \/ EndsResult(status)]]

\* create_task: a new TaskInfo, Pending, with its result record, queued in
\* _task_queue.  scheduled_time is only stored in the metadata.
create_task(priority, max_retries, dependencies, scheduled_time, task_type) ==
    /\ caller.pc = "idle"
    /\ nextId \in TaskIds
    /\ LET id == nextId
           o == [obj EXCEPT ![id] =
                    [status |-> PENDING, priority |-> priority, retry_count |-> 0,
                     max_retries |-> max_retries, dependencies |-> dependencies,
                     task_type |-> task_type, scheduled_time |-> scheduled_time]]
       IN  /\ obj' = o
           /\ tasks' = tasks \cup {id}
           /\ task_results' = [task_results EXCEPT ![id] = [status |-> PENDING, ended |-> FALSE]]
           /\ task_queue' = add_to_queue(task_queue, id, tasks \cup {id}, o)
           /\ hist' = [hist EXCEPT ![id].trail = "pending"]
           /\ nextId' = nextId + 1
    /\ UNCHANGED <<pq, nput, clock, scheduled, now, running, permits, worker, sched, caller>>

\* update_task_status called directly by the caller.  An unknown id raises
\* TaskNotFoundError and changes nothing.
update_task_status(id, status) ==
    /\ caller.pc = "idle"
    /\ id \in tasks
    /\ obj' = StatusSet(obj, id, status)
    /\ task_results' = ResultSet(task_results, id, status)
    /\ hist' = [HistStatus(hist, id, status) EXCEPT ![id].manual = TRUE]
    /\ UNCHANGED <<nextId, tasks, task_queue, pq, nput, clock, scheduled, now, running,
                   permits, worker, sched, caller>>

\* CanCancel without the Running case.
CanCancel_OnlyPending(status) == status = PENDING

\* cancel_task: only a Pending or Running task; otherwise returns False.
CanCancel(status) == status \in {PENDING, RUNNING}

cancel_task(id) ==
    /\ caller.pc = "idle"
    /\ id \in tasks
    /\ CanCancel(obj[id].status)
    /\ task_queue' = RemoveFirst(task_queue, id)
    /\ obj' = StatusSet(obj, id, CANCELLED)
    /\ task_results' = ResultSet(task_results, id, CANCELLED)
    /\ hist' = [HistStatus(hist, id, CANCELLED) EXCEPT
                   ![id].manual = TRUE,
                   ![id].cancelledEarly = obj[id].status = PENDING /\ ~HeldByWorker(id)]
    /\ UNCHANGED <<nextId, tasks, pq, nput, clock, scheduled, now, running, permits,
                   worker, sched, caller>>

\* CanRetry without the check of the retry count.
CanRetry_NoBound(o) == o.status = FAILED

\* CanRetry without the check of the status.
CanRetry_AnyStatus(o) == ~(o.retry_count >= o.max_retries)

\* retry_task succeeds only on a Failed task with retries left.
CanRetry(o) == o.status = FAILED /\ ~(o.retry_count >= o.max_retries)

\* The effect of a successful retry_task on the objects and on _task_queue:
\* the result record is not touched and no listener is notified.
RetryObj(o, id) == [o EXCEPT ![id].retry_count = @ + 1, ![id].status = PENDING]

retry_task(id) ==
    /\ caller.pc = "idle"
    /\ id \in tasks
    /\ CanRetry(obj[id])
    /\ obj' = RetryObj(obj, id)
    /\ task_queue' = add_to_queue(task_queue, id, tasks, obj)
    /\ hist' = [HistStatus(hist, id, PENDING) EXCEPT ![id].manual = TRUE]
    /\ UNCHANGED <<nextId, tasks, task_results, pq, nput, clock, scheduled, now, running,
                   permits, worker, sched, caller>>

\* delete_task without the removal of the result record.
delete_task_KeepsResult(id) ==
    /\ caller.pc = "idle"
    /\ id \in tasks
    /\ obj[id].status # RUNNING
    /\ task_queue' = RemoveFirst(task_queue, id)
    /\ tasks' = tasks \ {id}
    /\ hist' = [hist EXCEPT ![id].manual = TRUE]
    /\ UNCHANGED <<nextId, obj, task_results, pq, nput, clock, scheduled, now, running,
                   permits, worker, sched, caller>>

\* delete_task: refuses a Running task; the TaskInfo object itself lives on in
\* whatever still refers to it (a queue entry, a worker).
delete_task(id) ==
    /\ caller.pc = "idle"
    /\ id \in tasks
    /\ obj[id].status # RUNNING
    /\ task_queue' = RemoveFirst(task_queue, id)
    /\ tasks' = tasks \ {id}
    /\ task_results' = [task_results EXCEPT ![id] = NoResult]
    /\ hist' = [hist EXCEPT ![id].manual = TRUE]
    /\ UNCHANGED <<nextId, obj, pq, nput, clock, scheduled, now, running, permits,
                   worker, sched, caller>>

\* The tasks clear_completed_tasks would select were Cancelled left out.
Cleared_OnlyCompleted == {id \in tasks : obj[id].status = COMPLETED}

\* clear_completed_tasks: drops every Completed or Cancelled task and its
\* result record (their history files are written first; not modelled).
Cleared == {id \in tasks : obj[id].status \in {COMPLETED, CANCELLED}}

clear_completed_tasks ==
    /\ caller.pc = "idle"
    /\ Cleared # {}
    /\ tasks' = tasks \ Cleared
    /\ task_results' = [id \in TaskIds |-> IF id \in Cleared THEN NoResult ELSE task_results[id]]
    /\ UNCHANGED <<nextId, obj, task_queue, pq, nput, clock, scheduled, now, running,
                   permits, worker, sched, caller, hist>>

\* ----------------------------------------------------------- TaskScheduler
\* The heap key _enqueue_task computes from task.priority: a priority the
\* table does not list (URGENT) takes the default 1.
priority_value(priority) ==
    IF priority = HIGH THEN 0
    ELSE IF priority = NORMAL THEN 1
    ELSE IF priority = LOW THEN 2
    ELSE 1

\* The tuple (priority_value, time.time(), task) as it enters the heap; ord is
\* the position of its put among all puts (history, not part of the tuple).
Entry(id, ts) == [pv |-> priority_value(obj[id].priority), ts |-> ts, ord |-> nput + 1, id |-> id]

\* a < b on two heap tuples.  Tuples compare item by item: equal keys and
\* equal timestamps leave the two TaskInfo objects to compare, and TaskInfo
\* (a dataclass without order=True) does not support "<": TypeError.  Two
\* entries of the same object compare equal, so "<" is False.
LessThan(a, b) ==
    IF a.pv # b.pv THEN (IF a.pv < b.pv THEN "True" ELSE "False")
    ELSE IF a.ts # b.ts THEN (IF a.ts < b.ts THEN "True" ELSE "False")
    ELSE IF a.id = b.id THEN "False"
    ELSE "TypeError"

\* heapq of CPython (Modules/_heapqmodule.c), on the list h; positions count
\* from 0 as in the C code.  Each returns the list as it is left and whether
\* it returned normally.
Swap(h, i, j) == [h EXCEPT ![i + 1] = h[j + 1], ![j + 1] = h[i + 1]]

RECURSIVE siftdown(_, _, _)
siftdown(h, startpos, pos) ==
    IF pos <= startpos THEN [heap |-> h, ok |-> TRUE]
    ELSE LET parentpos == (pos - 1) \div 2
             cmp == LessThan(h[pos + 1], h[parentpos + 1])
         IN  IF cmp = "TypeError" THEN [heap |-> h, ok |-> FALSE]
             ELSE IF cmp = "False" THEN [heap |-> h, ok |-> TRUE]
             ELSE siftdown(Swap(h, parentpos, pos), startpos, parentpos)

RECURSIVE siftup(_, _)
siftup(h, pos) ==
    IF pos >= Len(h) \div 2 THEN siftdown(h, 0, pos)
    ELSE LET childpos == 2 * pos + 1
             cmp == IF childpos + 1 < Len(h)
                    THEN LessThan(h[childpos + 1], h[childpos + 2])
                    ELSE "True"
         IN  IF cmp = "TypeError" THEN [heap |-> h, ok |-> FALSE]
             ELSE LET smaller == IF cmp = "True" THEN childpos ELSE childpos + 1
                  IN  siftup(Swap(h, smaller, pos), smaller)

\* heappush: the item is appended, then sifted; a comparison that raises
\* leaves it where it stands.
heappush(h, item) == siftdown(Append(h, item), 0, Len(h))

\* heappop on a non-empty list: the last item replaces the root and is sifted;
\* if a comparison raises, the root is dropped and nothing is returned.
heappop(h) ==
    LET lastelt == h[Len(h)]
        rest == SubSeq(h, 1, Len(h) - 1)
    IN  IF rest = <<>> THEN [heap |-> rest, ok |-> TRUE, item |-> lastelt]
        ELSE LET r == siftup([rest EXCEPT ![1] = lastelt], 0)
             IN  [heap |-> r.heap, ok |-> r.ok, item |-> h[1]]

\* The entries of a heap list.
Entries(h) == {h[k] : k \in 1..Len(h)}

\* _enqueue_task after its put: TaskStatus.QUEUED is evaluated to build the
\* call update_task_status(task_id, TaskStatus.QUEUED).  The enum has no such
\* member, so the attribute lookup raises AttributeError, no status is
\* written, and the exception leaves _enqueue_task (as the TypeError of a put
\* does).
enqueue_raises == QUEUED \notin TaskStatus

\* _scheduled_tasks[task_id] = scheduled_time: a dict keeps a key's first position.
IsScheduled(id) == \E k \in 1..Len(scheduled) : scheduled[k].id = id
SetScheduled(id, at) ==
    IF IsScheduled(id)
    THEN [k \in 1..Len(scheduled) |->
             IF scheduled[k].id = id THEN [id |-> id, at |-> at] ELSE scheduled[k]]
    ELSE Append(scheduled, [id |-> id, at |-> at])

\* schedule_task(task_id, scheduled_time) with a time: only records it.
schedule_task_at(id, at) ==
    /\ caller.pc = "idle"
    /\ id \in tasks
    /\ scheduled' = SetScheduled(id, at)
    /\ hist' = [hist EXCEPT ![id].manual = @ \/ hist[id].dispatched,
                            ![id].cancelledEarly = FALSE]
    /\ UNCHANGED <<nextId, tasks, obj, task_results, task_queue, pq, nput, clock, now,
                   running, permits, worker, sched, caller>>

\* schedule_task(task_id) without a time: _enqueue_task(task), whatever the
\* task's status, dependencies or scheduled time.  First the tuple is built
\* (time.time() is read) ...
schedule_task_now(id) ==
    /\ caller.pc = "idle"
    /\ id \in tasks
    /\ clock' = clock + 1
    /\ caller' = [pc |-> "put", task |-> id, ts |-> now]
    /\ hist' = [hist EXCEPT ![id].manual = @ \/ hist[id].dispatched,
                            ![id].cancelledEarly = FALSE]
    /\ UNCHANGED <<nextId, tasks, obj, task_results, task_queue, pq, nput, scheduled, now,
                   running, permits, worker, sched>>

\* ... then it is put on the heap, and the status update raises to the caller.
schedule_task_put ==
    /\ caller.pc = "put"
    /\ pq' = heappush(pq, Entry(caller.task, caller.ts)).heap
    /\ nput' = nput + 1
    /\ caller' = [pc |-> "idle", task |-> None, ts |-> None]
    /\ IF ~heappush(pq, Entry(caller.task, caller.ts)).ok \/ enqueue_raises
          \/ caller.task \notin tasks
       THEN UNCHANGED <<obj, task_results, hist>>
       ELSE /\ obj' = StatusSet(obj, caller.task, QUEUED)
            /\ task_results' = ResultSet(task_results, caller.task, QUEUED)
            /\ hist' = HistStatus(hist, caller.task, QUEUED)
    /\ UNCHANGED <<nextId, tasks, task_queue, clock, scheduled, now, running, permits,
                   worker, sched>>

\* start(): sets _running and starts the promotion loop and the worker loops.
start ==
    /\ ~running
    /\ running' = TRUE
    /\ sched' = [pc |-> "time", task |-> None, ts |-> None]
    /\ worker' = [w \in Workers |-> [pc |-> "idle", task |-> None]]
    /\ UNCHANGED <<nextId, tasks, obj, task_results, task_queue, pq, nput, clock,
                   scheduled, now, permits, caller, hist>>

\* The system clock advances.
Tick ==
    /\ now < MaxTime
    /\ now' = now + 1
    /\ UNCHANGED <<nextId, tasks, obj, task_results, task_queue, pq, nput, clock,
                   scheduled, running, permits, worker, sched, caller, hist>>

\* _check_scheduled_tasks: the due ids, in dict order; the first one still in
\* the registry is enqueued, and _enqueue_task raises out of the method.
DueIndexes == {k \in 1..Len(scheduled) : now >= scheduled[k].at /\ scheduled[k].id \in tasks}
FirstDue == scheduled[CHOOSE k \in DueIndexes : \A m \in DueIndexes : k <= m].id

\* _check_task_dependencies: is every dependency of the task in the registry
\* and Completed?
DependenciesCompleted(id) ==
    \A d \in obj[id].dependencies : d \in tasks /\ obj[d].status = COMPLETED

\* The Pending tasks the dependency check would enqueue: only tasks that have
\* dependencies are looked at.
Releasable == {id \in tasks : /\ obj[id].status = PENDING
                              /\ obj[id].dependencies # {}
                              /\ DependenciesCompleted(id)}
FirstReleasable == CHOOSE id \in Releasable : \A j \in Releasable : id <= j

\* One iteration of _scheduler_loop, first half: _check_scheduled_tasks.
check_scheduled_tasks ==
    /\ running
    /\ sched.pc = "time"
    /\ IF DueIndexes # {}
       THEN /\ clock < MaxPuts
            /\ clock' = clock + 1
            /\ sched' = [pc |-> "put", task |-> FirstDue, ts |-> now]
       ELSE /\ sched' = [sched EXCEPT !.pc = "dep"]
            /\ UNCHANGED clock
    /\ UNCHANGED <<nextId, tasks, obj, task_results, task_queue, pq, nput, scheduled, now,
                   running, permits, worker, caller, hist>>

\* Second half: _check_task_dependencies.
check_task_dependencies ==
    /\ sched.pc = "dep"
    /\ IF Releasable # {}
       THEN /\ clock < MaxPuts
            /\ clock' = clock + 1
            /\ sched' = [pc |-> "put", task |-> FirstReleasable, ts |-> now]
       ELSE /\ sched' = [sched EXCEPT !.pc = "sleep"]
            /\ UNCHANGED clock
    /\ UNCHANGED <<nextId, tasks, obj, task_results, task_queue, pq, nput, scheduled, now,
                   running, permits, worker, caller, hist>>

\* The put of the promotion loop's _enqueue_task.  The AttributeError is caught
\* by _scheduler_loop, which starts its next iteration at once: the entry of
\* _scheduled_tasks is not deleted and the rest of the iteration is skipped.
scheduler_put ==
    /\ sched.pc = "put"
    /\ pq' = heappush(pq, Entry(sched.task, sched.ts)).heap
    /\ nput' = nput + 1
    /\ sched' = [pc |-> "time", task |-> None, ts |-> None]
    /\ IF ~heappush(pq, Entry(sched.task, sched.ts)).ok \/ enqueue_raises
          \/ sched.task \notin tasks
       THEN UNCHANGED <<obj, task_results, hist>>
       ELSE /\ obj' = StatusSet(obj, sched.task, QUEUED)
            /\ task_results' = ResultSet(task_results, sched.task, QUEUED)
            /\ hist' = HistStatus(hist, sched.task, QUEUED)
    /\ UNCHANGED <<nextId, tasks, task_queue, clock, scheduled, now, running, permits,
                   worker, caller>>

\* time.sleep(1) at the end of an iteration that enqueued nothing.
scheduler_sleep ==
    /\ sched.pc = "sleep"
    /\ sched' = [sched EXCEPT !.pc = "time"]
    /\ UNCHANGED <<nextId, tasks, obj, task_results, task_queue, pq, nput, clock,
                   scheduled, now, running, permits, worker, caller, hist>>

\* ------------------------------------------------------------ _worker_loop
SetWorker(w, pc, task) == [worker EXCEPT ![w] = [pc |-> pc, task |-> task]]

\* _dequeue_task: PriorityQueue.get pops the heap (an empty heap times out,
\* and the loop tries again).  An exception of the pop is swallowed by the
\* bare except: None is returned and the worker goes round its loop.
dequeue_task(w) ==
    /\ running
    /\ worker[w].pc = "idle"
    /\ pq # <<>>
    /\ LET r == heappop(pq)
       IN  /\ pq' = r.heap
           /\ IF r.ok
              THEN /\ worker' = SetWorker(w, "acquire", r.item.id)
                   /\ hist' = [hist EXCEPT ![r.item.id].dispatched = TRUE]
              ELSE UNCHANGED <<worker, hist>>
    /\ UNCHANGED <<nextId, tasks, obj, task_results, task_queue, nput, clock, scheduled,
                   now, running, permits, sched, caller>>

\* self._available_workers.acquire()
acquire_permit(w) ==
    /\ worker[w].pc = "acquire"
    /\ permits > 0
    /\ permits' = permits - 1
    /\ worker' = SetWorker(w, "start", worker[w].task)
    /\ UNCHANGED <<nextId, tasks, obj, task_results, task_queue, pq, nput, clock,
                   scheduled, now, running, sched, caller, hist>>

\* _execute_task's first statement in a worker loop that releases the permit
\* after _execute_task without a finally: an exception of _execute_task skips
\* the release.
execute_set_running_NoFinally(w) ==
    /\ worker[w].pc = "start"
    /\ LET id == worker[w].task
       IN  IF id \in tasks
           THEN /\ obj' = StatusSet(obj, id, RUNNING)
                /\ task_results' = ResultSet(task_results, id, RUNNING)
                /\ hist' = HistStatus(hist, id, RUNNING)
                /\ worker' = SetWorker(w, "handler", id)
           ELSE /\ worker' = SetWorker(w, "idle", None)
                /\ UNCHANGED <<obj, task_results, hist>>
    /\ UNCHANGED <<nextId, tasks, task_queue, pq, nput, clock, scheduled, now, running,
                   permits, sched, caller>>

\* _execute_task, first statement: update_task_status(task_id, RUNNING),
\* whatever the status was.  For a task no longer in the registry it raises
\* TaskNotFoundError, the except branch's update to FAILED raises it again,
\* and the worker releases its permit.
execute_set_running(w) ==
    /\ worker[w].pc = "start"
    /\ LET id == worker[w].task
       IN  IF id \in tasks
           THEN /\ obj' = StatusSet(obj, id, RUNNING)
                /\ task_results' = ResultSet(task_results, id, RUNNING)
                /\ hist' = HistStatus(hist, id, RUNNING)
                /\ worker' = SetWorker(w, "handler", id)
                /\ UNCHANGED permits
           ELSE /\ worker' = SetWorker(w, "idle", None)
                /\ permits' = permits + 1
                /\ UNCHANGED <<obj, task_results, hist>>
    /\ UNCHANGED <<nextId, tasks, task_queue, pq, nput, clock, scheduled, now, running,
                   sched, caller>>

\* The handler runs, outside the registry lock, and returns or raises.
run_handler(w) ==
    /\ worker[w].pc = "handler"
    /\ LET id == worker[w].task
       IN  /\ worker' = SetWorker(w, IF HandlerRaises(obj[id].task_type) THEN "failed" ELSE "returned", id)
           /\ hist' = [hist EXCEPT ![id].invocations = @ + 1]
    /\ UNCHANGED <<nextId, tasks, obj, task_results, task_queue, pq, nput, clock,
                   scheduled, now, running, permits, sched, caller>>

\* The handler returned: update_task_status(task_id, COMPLETED).
execute_completed(w) ==
    /\ worker[w].pc = "returned"
    /\ LET id == worker[w].task
       IN  IF id \in tasks
           THEN /\ obj' = StatusSet(obj, id, COMPLETED)
                /\ task_results' = ResultSet(task_results, id, COMPLETED)
                /\ hist' = HistStatus(hist, id, COMPLETED)
           ELSE UNCHANGED <<obj, task_results, hist>>
    /\ worker' = SetWorker(w, "idle", None)
    /\ permits' = permits + 1
    /\ UNCHANGED <<nextId, tasks, task_queue, pq, nput, clock, scheduled, now, running,
                   sched, caller>>

\* The handler raised: update_task_status(task_id, FAILED).
execute_failed(w) ==
    /\ worker[w].pc = "failed"
    /\ LET id == worker[w].task
       IN  IF id \in tasks
           THEN /\ obj' = StatusSet(obj, id, FAILED)
                /\ task_results' = ResultSet(task_results, id, FAILED)
                /\ hist' = HistStatus(hist, id, FAILED)
                /\ worker' = SetWorker(w, "retry", id)
                /\ UNCHANGED permits
           ELSE /\ worker' = SetWorker(w, "idle", None)
                /\ permits' = permits + 1
                /\ UNCHANGED <<obj, task_results, hist>>
    /\ UNCHANGED <<nextId, tasks, task_queue, pq, nput, clock, scheduled, now, running,
                   sched, caller>>

\* if task.retry_count < task.max_retries: retry_task(task_id).  retry_task
\* re-checks under the lock (retry_count never decreases, so the check made
\* outside the lock adds nothing to it); it puts the id on _task_queue, not
\* on the heap.
execute_retry(w) ==
    /\ worker[w].pc = "retry"
    /\ LET id == worker[w].task
       IN  IF obj[id].retry_count < obj[id].max_retries /\ id \in tasks /\ CanRetry(obj[id])
           THEN /\ obj' = RetryObj(obj, id)
                /\ task_queue' = add_to_queue(task_queue, id, tasks, obj)
                /\ hist' = HistStatus(hist, id, PENDING)
           ELSE UNCHANGED <<obj, task_queue, hist>>
    /\ worker' = SetWorker(w, "idle", None)
    /\ permits' = permits + 1
    /\ UNCHANGED <<nextId, tasks, task_results, pq, nput, clock, scheduled, now, running,
                   sched, caller>>

\* ------------------------------------------------- observed registry calls
\* A call of the caller on the TaskManager, with what the caller and the
\* listeners see of it: the value returned or the exception raised, and the
\* listener invocations made during the call, in order.

\* for listener in self._task_listeners: listener(event, *args), without the
\* try/except around the invocation: the first exception ends the loop and
\* reaches the caller of _notify_listeners.
RECURSIVE notify_listeners_NoTry(_, _)
notify_listeners_NoTry(listeners, args) ==
    IF listeners = <<>> THEN [invoked |-> <<>>, raised |-> FALSE]
    ELSE LET invocation == [listener |-> Head(listeners), event |-> args.event, id |-> args.id,
                            old |-> args.old, new |-> args.new]
         IN  IF ListenerRaises(Head(listeners))
             THEN [invoked |-> <<invocation>>, raised |-> TRUE]
             ELSE LET rest == notify_listeners_NoTry(Tail(listeners), args)
                  IN  [invoked |-> <<invocation>> \o rest.invoked, raised |-> rest.raised]

\* _notify_listeners(event, *args): every listener is invoked in a try whose
\* except logs the exception and goes on with the next listener.
RECURSIVE notify_listeners(_, _)
notify_listeners(listeners, args) ==
    IF listeners = <<>> THEN [invoked |-> <<>>, raised |-> FALSE]
    ELSE LET invocation == [listener |-> Head(listeners), event |-> args.event, id |-> args.id,
                            old |-> args.old, new |-> args.new]
             rest == notify_listeners(Tail(listeners), args)
         IN  [invoked |-> <<invocation>> \o rest.invoked, raised |-> rest.raised]

task_created(id) == [event |-> "task_created", id |-> id, old |-> "none", new |-> PENDING]
task_status_changed(id, old, new) ==
    [event |-> "task_status_changed", id |-> id, old |-> old, new |-> new]

\* The record of a call that has just ended.
Observed(op, id, ret, notified) ==
    [n |-> obs.n + 1, op |-> op, id |-> id, ret |-> ret, notified |-> notified, value |-> None]

\* What a call that ran its notification returns: ret, unless a listener's
\* exception came out of _notify_listeners.
Returned(notification, ret) == IF notification.raised THEN "Exception" ELSE ret

\* add_task_listener(listener): appended unless already registered.
add_task_listener(listener) ==
    /\ caller.pc = "idle"
    /\ ~InSeq(task_listeners, listener)
    /\ task_listeners' = Append(task_listeners, listener)
    /\ UNCHANGED sched_vars
    /\ UNCHANGED <<threads, lock, obs, exec_vars, cron_vars>>

\* get_task(task_id): self._tasks.get(task_id), the task or None.
get_task(registry, id) == IF id \in registry THEN id ELSE None

\* What each operation does with an id that is not in _tasks, without the
\* distinction between the operations.
UnknownIdOutcome_AllRaise(op) == "TaskNotFoundError"

\* What each operation does with an id that is not in _tasks.
UnknownIdOutcome(op) ==
    CASE op = "get_task" -> "None"
      [] op = "update_task_status" -> "TaskNotFoundError"
      [] op = "cancel_task" -> "TaskNotFoundError"
      [] op = "retry_task" -> "TaskNotFoundError"
      [] op = "delete_task" -> "False"
      [] op = "save_task_history" -> "None"

\* Any of these operations on an id that is not in _tasks.
call_unknown(op, id) ==
    /\ caller.pc = "idle"
    /\ obs.n < MaxCalls
    /\ id \notin tasks
    /\ obs' = Observed(op, id, UnknownIdOutcome(op), <<>>)
    /\ UNCHANGED sched_vars
    /\ UNCHANGED <<threads, lock, task_listeners, exec_vars, cron_vars>>

call_create_task(priority, max_retries) ==
    /\ obs.n < MaxCalls
    /\ create_task(priority, max_retries, {}, None, "noop")
    /\ LET notification == notify_listeners(task_listeners, task_created(nextId))
       IN  obs' = Observed("create_task", nextId, Returned(notification, "task_id"),
                           notification.invoked)
    /\ UNCHANGED <<threads, lock, task_listeners, exec_vars, cron_vars>>

call_get_task(id) ==
    /\ caller.pc = "idle"
    /\ obs.n < MaxCalls
    /\ id \in tasks
    /\ obs' = Observed("get_task", id, "task", <<>>)
    /\ UNCHANGED sched_vars
    /\ UNCHANGED <<threads, lock, task_listeners, exec_vars, cron_vars>>

\* save_task_history(task_id) of a task of the registry writes the history
\* file and returns None; the registry is only read.
call_save_task_history(id) ==
    /\ caller.pc = "idle"
    /\ obs.n < MaxCalls
    /\ id \in tasks
    /\ obs' = Observed("save_task_history", id, "None", <<>>)
    /\ UNCHANGED sched_vars
    /\ UNCHANGED <<threads, lock, task_listeners, exec_vars, cron_vars>>

call_update_task_status(id, status) ==
    /\ obs.n < MaxCalls
    /\ update_task_status(id, status)
    /\ LET notification ==
               notify_listeners(task_listeners, task_status_changed(id, obj[id].status, status))
       IN  obs' = Observed("update_task_status", id, Returned(notification, "None"),
                           notification.invoked)
    /\ UNCHANGED <<threads, lock, task_listeners, exec_vars, cron_vars>>

\* cancel_task(task_id) of a task of the registry: False when the status is
\* neither Pending nor Running, else the removal from _task_queue and
\* update_task_status(task_id, CANCELLED), with its notification.
call_cancel_task(id) ==
    /\ obs.n < MaxCalls
    /\ id \in tasks
    /\ IF CanCancel(obj[id].status)
       THEN /\ cancel_task(id)
            /\ LET notification ==
                       notify_listeners(task_listeners,
                                        task_status_changed(id, obj[id].status, CANCELLED))
               IN  obs' = Observed("cancel_task", id, Returned(notification, "True"),
                                   notification.invoked)
       ELSE /\ caller.pc = "idle"
            /\ obs' = Observed("cancel_task", id, "False", <<>>)
            /\ UNCHANGED sched_vars
    /\ UNCHANGED <<threads, lock, task_listeners, exec_vars, cron_vars>>

\* retry_task(task_id) of a task of the registry: False unless the task is
\* Failed with retries left; _notify_listeners is not called.
call_retry_task(id) ==
    /\ obs.n < MaxCalls
    /\ id \in tasks
    /\ IF CanRetry(obj[id])
       THEN /\ retry_task(id)
            /\ obs' = Observed("retry_task", id, "True", <<>>)
       ELSE /\ caller.pc = "idle"
            /\ obs' = Observed("retry_task", id, "False", <<>>)
            /\ UNCHANGED sched_vars
    /\ UNCHANGED <<threads, lock, task_listeners, exec_vars, cron_vars>>

\* delete_task(task_id) of a task of the registry: False when it is Running.
call_delete_task(id) ==
    /\ obs.n < MaxCalls
    /\ id \in tasks
    /\ IF obj[id].status # RUNNING
       THEN /\ delete_task(id)
            /\ obs' = Observed("delete_task", id, "True", <<>>)
       ELSE /\ caller.pc = "idle"
            /\ obs' = Observed("delete_task", id, "False", <<>>)
            /\ UNCHANGED sched_vars
    /\ UNCHANGED <<threads, lock, task_listeners, exec_vars, cron_vars>>

\* ------------------------------------------------------------ TaskExecutor
\* execute(task), step by step for the thread i that called it.  The game is
\* running or the task does not ask for it (metadata['wake_game']), so the
\* wake-up and the return to the home screen change nothing kept here; a
\* failed wake-up is one more way into the except clause, like a handler that
\* raises.  Durations are not kept.

SetExec(i, e) == [exec EXCEPT ![i] = e]

\* The locals of a thread entering execute.
Begin(id, task_type, timeout) ==
    [NoExec EXCEPT !.pc = "lookup", !.id = id, !.task_type = task_type, !.timeout = timeout]

\* The handler is invoked for task id (no task when execute was given a
\* TaskInfo that is not in the registry).
Invocation(id) == IF id = None THEN hist ELSE [hist EXCEPT ![id].invocations = @ + 1]

\* A new statistics dict.
ZeroStats == [total |-> 0, success |-> 0, failed |-> 0]

\* get_statistics()[task_type]: the dict now bound to the key.
Stats(stats, task_type) ==
    IF stats[task_type] = <<>> THEN ZeroStats ELSE stats[task_type][Len(stats[task_type])]

\* executor = self._executors.get(task_type): without one, TaskExecutionError
\* is raised into the except clause of execute, which calls
\* _update_stats(task_type, False, ...).  With a timeout the handler is started
\* on a daemon thread and joined; without one it is called in place.
execute_lookup(i) ==
    /\ exec[i].pc = "lookup"
    /\ LET e == exec[i]
       IN  IF ~HasHandler(e.task_type)
           THEN /\ exec' = SetExec(i, [e EXCEPT !.pc = "check", !.success = FALSE])
                /\ UNCHANGED hist
           ELSE IF e.timeout
           THEN /\ exec' = SetExec(i, [e EXCEPT !.pc = "join", !.thread = "running"])
                /\ hist' = Invocation(e.id)
           ELSE /\ exec' = SetExec(i, [e EXCEPT !.pc = "call"])
                /\ UNCHANGED hist
    /\ UNCHANGED <<nextId, tasks, obj, task_results, task_queue, pq, nput, clock, scheduled,
                   now, running, permits, worker, sched, caller>>
    /\ UNCHANGED <<threads, lock, cron_vars, task_listeners, obs, execution_stats, detached, invoked, task_timeout>>

\* result = executor(task, self._context): it returns, and
\* _update_stats(task_type, True, ...) follows, or it raises, and the except
\* clause calls _update_stats(task_type, False, ...).
execute_call(i) ==
    /\ exec[i].pc = "call"
    /\ exec' = SetExec(i, [exec[i] EXCEPT !.pc = "check",
                                          !.success = ~HandlerRaises(exec[i].task_type)])
    /\ hist' = Invocation(exec[i].id)
    /\ UNCHANGED <<nextId, tasks, obj, task_results, task_queue, pq, nput, clock, scheduled,
                   now, running, permits, worker, sched, caller>>
    /\ UNCHANGED <<threads, lock, cron_vars, task_listeners, obs, execution_stats, detached, invoked, task_timeout>>

\* run() of _execute_with_timeout on its thread, before the join has timed
\* out: the handler returns into result[0] or raises into exception[0].
thread_run(i) ==
    /\ exec[i].pc = "join"
    /\ exec[i].thread = "running"
    /\ exec' = SetExec(i, [exec[i] EXCEPT !.thread =
                              IF HandlerRaises(exec[i].task_type) THEN "raised" ELSE "returned"])
    /\ UNCHANGED sched_vars
    /\ UNCHANGED <<threads, lock, cron_vars, task_listeners, obs, execution_stats, detached, invoked, task_timeout>>

\* thread.join(timeout) returns with the thread finished: result[0] is
\* returned or exception[0] raised.
execute_join(i) ==
    /\ exec[i].pc = "join"
    /\ exec[i].thread \in {"returned", "raised"}
    /\ exec' = SetExec(i, [exec[i] EXCEPT !.pc = "check", !.thread = "none",
                                          !.success = exec[i].thread = "returned"])
    /\ UNCHANGED sched_vars
    /\ UNCHANGED <<threads, lock, cron_vars, task_listeners, obs, execution_stats, detached, invoked, task_timeout>>

\* thread.join(timeout) returns with the thread still alive: TaskExecutionError
\* ("Task timeout") is raised and the thread is left running.
execute_timeout(i) ==
    /\ exec[i].pc = "join"
    /\ exec[i].thread = "running"
    /\ exec' = SetExec(i, [exec[i] EXCEPT !.pc = "check", !.thread = "none",
                                          !.success = FALSE, !.timed_out = TRUE])
    /\ detached' = detached + 1
    /\ UNCHANGED sched_vars
    /\ UNCHANGED <<threads, lock, cron_vars, task_listeners, obs, execution_stats, invoked, task_timeout>>

\* run() on a thread whose join has timed out: the handler returns or raises
\* later; result[0] and exception[0] are locals of a call that is over.
detached_run ==
    /\ detached > 0
    /\ detached' = detached - 1
    /\ UNCHANGED sched_vars
    /\ UNCHANGED <<threads, lock, cron_vars, task_listeners, obs, execution_stats, exec, invoked, task_timeout>>

\* _update_stats, statement by statement; nothing is locked.
\* if task_type not in self._execution_stats:
update_stats_check(i) ==
    /\ exec[i].pc = "check"
    /\ exec' = SetExec(i, [exec[i] EXCEPT !.pc =
                              IF execution_stats[exec[i].task_type] = <<>> THEN "create" ELSE "bind"])
    /\ UNCHANGED sched_vars
    /\ UNCHANGED <<threads, lock, cron_vars, task_listeners, obs, execution_stats, detached, invoked, task_timeout>>

\* self._execution_stats[task_type] = {'total': 0, ...}: a new dict is bound
\* to the key, whatever was bound to it since the check.
update_stats_create(i) ==
    /\ exec[i].pc = "create"
    /\ execution_stats' = [execution_stats EXCEPT ![exec[i].task_type] = Append(@, ZeroStats)]
    /\ exec' = SetExec(i, [exec[i] EXCEPT !.pc = "bind"])
    /\ UNCHANGED sched_vars
    /\ UNCHANGED <<threads, lock, cron_vars, task_listeners, obs, detached, invoked, task_timeout>>

\* stats = self._execution_stats[task_type]
update_stats_bind(i) ==
    /\ exec[i].pc = "bind"
    /\ exec' = SetExec(i, [exec[i] EXCEPT !.pc = "total_load",
                                          !.ref = Len(execution_stats[exec[i].task_type])])
    /\ UNCHANGED sched_vars
    /\ UNCHANGED <<threads, lock, cron_vars, task_listeners, obs, execution_stats, detached, invoked, task_timeout>>

\* stats['total'] += 1: the load ...
update_stats_total_load(i) ==
    /\ exec[i].pc = "total_load"
    /\ exec' = SetExec(i, [exec[i] EXCEPT
                              !.pc = "total_store",
                              !.load = execution_stats[exec[i].task_type][exec[i].ref].total])
    /\ UNCHANGED sched_vars
    /\ UNCHANGED <<threads, lock, cron_vars, task_listeners, obs, execution_stats, detached, invoked, task_timeout>>

\* ... and the store.
update_stats_total_store(i) ==
    /\ exec[i].pc = "total_store"
    /\ execution_stats' =
           [execution_stats EXCEPT ![exec[i].task_type][exec[i].ref].total = exec[i].load + 1]
    /\ exec' = SetExec(i, [exec[i] EXCEPT !.pc = "count_load"])
    /\ UNCHANGED sched_vars
    /\ UNCHANGED <<threads, lock, cron_vars, task_listeners, obs, detached, invoked, task_timeout>>

\* stats['success'] += 1 or stats['failed'] += 1: the load ...
update_stats_count_load(i) ==
    /\ exec[i].pc = "count_load"
    /\ LET stats == execution_stats[exec[i].task_type][exec[i].ref]
       IN  exec' = SetExec(i, [exec[i] EXCEPT
                                  !.pc = "count_store",
                                  !.load = IF exec[i].success THEN stats.success ELSE stats.failed])
    /\ UNCHANGED sched_vars
    /\ UNCHANGED <<threads, lock, cron_vars, task_listeners, obs, execution_stats, detached, invoked, task_timeout>>

\* ... and the store; execute then returns the result or raises
\* TaskExecutionError.
update_stats_count_store(i) ==
    /\ exec[i].pc = "count_store"
    /\ execution_stats' =
           IF exec[i].success
           THEN [execution_stats EXCEPT
                    ![exec[i].task_type][exec[i].ref].success = exec[i].load + 1]
           ELSE [execution_stats EXCEPT
                    ![exec[i].task_type][exec[i].ref].failed = exec[i].load + 1]
    /\ exec' = SetExec(i, [exec[i] EXCEPT !.pc = "done"])
    /\ UNCHANGED sched_vars
    /\ UNCHANGED <<threads, lock, cron_vars, task_listeners, obs, detached, invoked, task_timeout>>

\* A worker thread calls execute on a TaskInfo of the given type, with or
\* without metadata['timeout'].
call_execute(i, task_type, timeout) ==
    /\ exec[i].pc = "idle"
    /\ exec' = SetExec(i, Begin(None, task_type, timeout))
    /\ invoked' = [invoked EXCEPT ![task_type] = @ + 1]
    /\ UNCHANGED sched_vars
    /\ UNCHANGED <<threads, lock, cron_vars, task_listeners, obs, execution_stats, detached, task_timeout>>

\* execute is over for that thread; its last outcome stays readable.
execute_ends(i) ==
    /\ exec[i].pc = "done"
    /\ exec' = SetExec(i, [exec[i] EXCEPT !.pc = "idle"])
    /\ UNCHANGED sched_vars
    /\ UNCHANGED <<threads, lock, cron_vars, task_listeners, obs, execution_stats, detached, invoked, task_timeout>>

\* _execute_task of worker w: result = self.task_executor.execute(task).
execute_enter(w) ==
    /\ worker[w].pc = "handler"
    /\ exec[w].pc = "idle"
    /\ LET id == worker[w].task
       IN  /\ worker' = SetWorker(w, "executing", id)
           /\ exec' = SetExec(w, Begin(id, obj[id].task_type, task_timeout[id]))
           /\ invoked' = [invoked EXCEPT ![obj[id].task_type] = @ + 1]
    /\ UNCHANGED <<nextId, tasks, obj, task_results, task_queue, pq, nput, clock, scheduled,
                   now, running, permits, sched, caller, hist>>
    /\ UNCHANGED <<threads, lock, cron_vars, task_listeners, obs, execution_stats, detached, task_timeout>>

\* execute returns to _execute_task, or raises into its except clause.
execute_leave(w) ==
    /\ worker[w].pc = "executing"
    /\ exec[w].pc = "done"
    /\ worker' = SetWorker(w, IF exec[w].success THEN "returned" ELSE "failed", worker[w].task)
    /\ exec' = SetExec(w, [exec[w] EXCEPT !.pc = "idle"])
    /\ UNCHANGED <<nextId, tasks, obj, task_results, task_queue, pq, nput, clock, scheduled,
                   now, running, permits, sched, caller, hist>>
    /\ UNCHANGED <<threads, lock, cron_vars, task_listeners, obs, execution_stats, detached, invoked, task_timeout>>

\* create_task with metadata['timeout'] given or not.
create_task_timeout(max_retries, task_type, timeout) ==
    /\ create_task(NORMAL, max_retries, {}, None, task_type)
    /\ task_timeout' = [task_timeout EXCEPT ![nextId] = timeout]
    /\ UNCHANGED <<threads, lock, cron_vars, task_listeners, obs, execution_stats, exec, detached, invoked>>

\* ---------------------------------------------------------- recurring jobs
\* create_task's default max_retries, which the recurring loop leaves as it is.
DefaultMaxRetries == 3

\* schedule_recurring_task(name, task_type, interval, params, start_time):
\* next_run is start_time, or the present instant when none is given.
schedule_recurring_task(job, interval, start_time) ==
    /\ ~cron_jobs[job].present
    /\ cron_jobs' = [cron_jobs EXCEPT ![job] =
                        [present |-> TRUE, enabled |-> TRUE, interval |-> interval,
                         next_run |-> IF start_time = None THEN now ELSE start_time]]
    /\ UNCHANGED sched_vars
    /\ UNCHANGED <<threads, lock, task_listeners, obs, exec_vars, cron>>

\* cancel_recurring_task(job_id): a job of _cron_jobs is disabled, whether or
\* not it already was, and True is returned; for any other id, False.
cancel_recurring_task(job) ==
    /\ obs.n < MaxCalls
    /\ IF cron_jobs[job].present
       THEN /\ cron_jobs' = [cron_jobs EXCEPT ![job].enabled = FALSE]
            /\ obs' = Observed("cancel_recurring_task", job, "True", <<>>)
       ELSE /\ UNCHANGED cron_jobs
            /\ obs' = Observed("cancel_recurring_task", job, "False", <<>>)
    /\ UNCHANGED sched_vars
    /\ UNCHANGED <<threads, lock, task_listeners, exec_vars, cron>>

\* _cron_loop, at the top of the while: now = datetime.now() and the for over
\* _cron_jobs begins.  What the previous pass found and made is forgotten; the
\* jobs already disabled when the pass begins are noted.
cron_pass ==
    /\ running
    /\ cron.pc \in {"off", "top"}
    /\ cron' = [NoCron EXCEPT !.pc = "job", !.job = 1, !.now = now,
                              !.since = {j \in Jobs : cron_jobs[j].present /\ ~cron_jobs[j].enabled}]
    /\ UNCHANGED sched_vars
    /\ UNCHANGED <<threads, lock, task_listeners, obs, exec_vars, cron_jobs>>

\* JobDue without the test of job['enabled'].
JobDue_IgnoresEnabled ==
    /\ cron.job \in Jobs
    /\ cron_jobs[cron.job].present
    /\ cron.now >= cron_jobs[cron.job].next_run

\* The job now reached by the for is due.
JobDue == /\ cron.job \in Jobs
          /\ cron_jobs[cron.job].present
          /\ cron_jobs[cron.job].enabled
          /\ cron.now >= cron_jobs[cron.job].next_run

\* The for skips a job that is disabled or not due; after the last job the
\* loop goes to its sleep.
cron_skip ==
    /\ cron.pc = "job"
    /\ ~JobDue
    /\ cron' = IF cron.job \in Jobs THEN [cron EXCEPT !.job = @ + 1]
               ELSE [cron EXCEPT !.pc = "sleep", !.job = None]
    /\ UNCHANGED sched_vars
    /\ UNCHANGED <<threads, lock, task_listeners, obs, exec_vars, cron_jobs>>

\* The for finds the job enabled and due; nothing is locked, so the job can
\* be disabled between these tests and the creation of the task.
cron_find ==
    /\ cron.pc = "job"
    /\ JobDue
    /\ cron' = [cron EXCEPT !.pc = "create"]
    /\ UNCHANGED sched_vars
    /\ UNCHANGED <<threads, lock, task_listeners, obs, exec_vars, cron_jobs>>

\* task_id = self.task_manager.create_task(name, task_type, params) for a due job.
cron_create ==
    /\ cron.pc = "create"
    /\ create_task(NORMAL, DefaultMaxRetries, {}, None, "noop")
    /\ cron' = [cron EXCEPT !.pc = "schedule", !.task = nextId,
                            !.due[cron.job] = cron_jobs[cron.job].next_run,
                            !.made[cron.job] = @ + 1]
    /\ UNCHANGED <<threads, lock, task_listeners, obs, exec_vars, cron_jobs>>

\* self.schedule_task(task_id), run by the loop's thread: _enqueue_task is
\* entered ...
cron_schedule ==
    /\ cron.pc = "schedule"
    /\ schedule_task_now(cron.task)
    /\ cron' = [cron EXCEPT !.pc = "put"]
    /\ UNCHANGED <<threads, lock, task_listeners, obs, exec_vars, cron_jobs>>

\* ... and puts the task on the heap.  When it raises, the exception leaves
\* the for and the try: the except clause logs it and the while starts over,
\* without the sleep.  Otherwise job['next_run'] = now + job['interval'] and
\* the for goes on.
cron_put ==
    /\ cron.pc = "put"
    /\ schedule_task_put
    /\ IF ~heappush(pq, Entry(caller.task, caller.ts)).ok \/ enqueue_raises
       THEN /\ cron' = [cron EXCEPT !.pc = "top", !.job = None, !.task = None]
            /\ UNCHANGED cron_jobs
       ELSE /\ cron' = [cron EXCEPT !.pc = "job", !.job = @ + 1, !.task = None]
            /\ cron_jobs' = [cron_jobs EXCEPT
                                ![cron.job].next_run = cron.now + cron_jobs[cron.job].interval]
    /\ UNCHANGED <<threads, lock, task_listeners, obs, exec_vars>>

\* time.sleep(10), at the end of a pass that raised nothing.
cron_sleep ==
    /\ cron.pc = "sleep"
    /\ cron' = [cron EXCEPT !.pc = "top"]
    /\ UNCHANGED sched_vars
    /\ UNCHANGED <<threads, lock, task_listeners, obs, exec_vars, cron_jobs>>

\* ------------------------------------------------------------ specification
\* A step that no observer of the registry's calls is looking at.
Unobserved == UNCHANGED <<task_listeners, obs, exec_vars, cron_vars, lock, threads>>

\* The worker loops and the promotion loop.
WorkerStep ==
    \/ \E w \in Workers : dequeue_task(w) /\ Unobserved
    \/ \E w \in Workers : acquire_permit(w) /\ Unobserved
    \/ \E w \in Workers : execute_set_running(w) /\ Unobserved
    \/ \E w \in Workers : run_handler(w) /\ Unobserved
    \/ \E w \in Workers : execute_completed(w) /\ Unobserved
    \/ \E w \in Workers : execute_failed(w) /\ Unobserved
    \/ \E w \in Workers : execute_retry(w) /\ Unobserved

PromotionStep ==
    \/ check_scheduled_tasks /\ Unobserved
    \/ check_task_dependencies /\ Unobserved
    \/ scheduler_put /\ Unobserved
    \/ scheduler_sleep /\ Unobserved

\* The registry and the scheduler under every caller operation, for tasks of
\* Normal priority without a scheduled time (the system clock is not
\* watched: with at most MaxPuts entries the heap order does not depend on it).
Next ==
    \/ \E max_retries \in 0..MaxRetries, dependencies \in SUBSET (1..(nextId - 1)),
          task_type \in TaskTypes :
          /\ nextId <= MaxTasks
          /\ create_task(NORMAL, max_retries, dependencies, None, task_type)
          /\ Unobserved
    \/ \E id \in TaskIds : update_task_status(id, COMPLETED) /\ Unobserved
    \/ \E id \in TaskIds : cancel_task(id) /\ Unobserved
    \/ \E id \in TaskIds : retry_task(id) /\ Unobserved
    \/ \E id \in TaskIds : delete_task(id) /\ Unobserved
    \/ clear_completed_tasks /\ Unobserved
    \/ \E id \in TaskIds : clock < MaxPuts /\ schedule_task_now(id) /\ Unobserved
    \/ schedule_task_put /\ Unobserved
    \/ start /\ Unobserved
    \/ PromotionStep
    \/ WorkerStep

Spec == Init /\ [][Next]_vars


\* Retries alone: tasks without dependencies, retried by the workers and by
\* the caller.  With no dependency and no scheduled time the promotion loop
\* finds nothing to do, and is left out.
RetryNext ==
    \/ \E max_retries \in 0..MaxRetries, task_type \in TaskTypes :
          /\ nextId <= MaxTasks
          /\ create_task(NORMAL, max_retries, {}, None, task_type)
          /\ Unobserved
    \/ \E id \in TaskIds : retry_task(id) /\ Unobserved
    \/ \E id \in TaskIds : clock < MaxPuts /\ schedule_task_now(id) /\ Unobserved
    \/ schedule_task_put /\ Unobserved
    \/ start /\ Unobserved
    \/ WorkerStep

SpecRetry == Init /\ [][RetryNext]_vars

\* Dispatch order: the caller creates tasks of priority Low or High whose
\* handler returns, schedules each one at once after creating it (as
\* _cron_loop and the daily job do), and then starts the scheduler, so that
\* every task is on the Dispatcher before any worker is free; the system
\* clock advances meanwhile.
PriorityNext ==
    \/ \E priority \in {LOW, HIGH} :
          /\ ~running /\ nextId <= MaxBatch /\ clock = nextId - 1
          /\ create_task(priority, 0, {}, None, "noop")
          /\ Unobserved
    \/ ~running /\ clock < nextId - 1 /\ schedule_task_now(nextId - 1) /\ Unobserved
    \/ schedule_task_put /\ Unobserved
    \/ start /\ Unobserved
    \/ Tick /\ Unobserved
    \/ \E w \in Workers : dequeue_task(w) /\ Unobserved
    \/ \E w \in Workers : acquire_permit(w) /\ Unobserved
    \/ \E w \in Workers : execute_set_running(w) /\ Unobserved
    \/ \E w \in Workers : run_handler(w) /\ Unobserved
    \/ \E w \in Workers : execute_completed(w) /\ Unobserved

SpecPriority == Init /\ [][PriorityNext]_vars

\* Scheduled times: tasks created with or without a scheduled_time and with
\* or without dependencies, registered for a time or scheduled at once, while
\* the clock advances.
TimedNext ==
    \/ \E dependencies \in SUBSET (1..(nextId - 1)), scheduled_time \in {None} \cup (1..MaxTime) :
          /\ nextId <= MaxTasks
          /\ create_task(NORMAL, 0, dependencies, scheduled_time, "noop")
          /\ Unobserved
    \/ \E id \in TaskIds, at \in 1..MaxTime : schedule_task_at(id, at) /\ Unobserved
    \/ \E id \in TaskIds : clock < MaxPuts /\ schedule_task_now(id) /\ Unobserved
    \/ schedule_task_put /\ Unobserved
    \/ start /\ Unobserved
    \/ Tick /\ Unobserved
    \/ PromotionStep
    \/ \E w \in Workers : dequeue_task(w) /\ Unobserved
    \/ \E w \in Workers : acquire_permit(w) /\ Unobserved
    \/ \E w \in Workers : execute_set_running(w) /\ Unobserved
    \/ \E w \in Workers : run_handler(w) /\ Unobserved
    \/ \E w \in Workers : execute_completed(w) /\ Unobserved

SpecTimed == Init /\ [][TimedNext]_vars

\* The registry alone, under a caller that registers listeners and observes
\* the outcome of each of its calls, unknown ids included (MaxTasks + 1 is
\* never the id of a task).
RegistryOps == {"get_task", "update_task_status", "cancel_task", "retry_task", "delete_task",
                "save_task_history"}
RegistryStatuses == {RUNNING, COMPLETED, FAILED}

RegistryNext ==
    \/ \E listener \in Listeners : add_task_listener(listener)
    \/ \E max_retries \in {0, MaxRetries} : nextId <= MaxTasks /\ call_create_task(NORMAL, max_retries)
    \/ \E op \in RegistryOps, id \in 1..(MaxTasks + 1) : call_unknown(op, id)
    \/ \E id \in TaskIds : call_get_task(id)
    \/ \E id \in TaskIds : call_save_task_history(id)
    \/ \E id \in TaskIds, status \in RegistryStatuses : call_update_task_status(id, status)
    \/ \E id \in TaskIds : call_cancel_task(id)
    \/ \E id \in TaskIds : call_retry_task(id)
    \/ \E id \in TaskIds : call_delete_task(id)

SpecRegistry == Init /\ [][RegistryNext]_vars

\* The scheduler with its executor: tasks of every type, with and without a
\* timeout, are created, scheduled and run by the workers; the caller makes no
\* other call, so every later change of a task is the scheduler's.  No task has
\* a scheduled time or dependencies: the promotion loop runs and enqueues
\* nothing.
ExecutorStep(i) ==
    \/ execute_lookup(i)
    \/ execute_call(i)
    \/ thread_run(i)
    \/ execute_join(i)
    \/ execute_timeout(i)
    \/ update_stats_check(i)
    \/ update_stats_create(i)
    \/ update_stats_bind(i)
    \/ update_stats_total_load(i)
    \/ update_stats_total_store(i)
    \/ update_stats_count_load(i)
    \/ update_stats_count_store(i)

ExecutionNext ==
    \/ \E max_retries \in 0..MaxRetries, task_type \in ExecTypes, timeout \in BOOLEAN :
          nextId <= MaxTasks /\ create_task_timeout(max_retries, task_type, timeout)
    \/ \E id \in TaskIds : clock < MaxPuts /\ schedule_task_now(id) /\ Unobserved
    \/ schedule_task_put /\ Unobserved
    \/ start /\ Unobserved
    \/ check_scheduled_tasks /\ Unobserved
    \/ check_task_dependencies /\ Unobserved
    \/ scheduler_sleep /\ Unobserved
    \/ \E w \in Workers : dequeue_task(w) /\ Unobserved
    \/ \E w \in Workers : acquire_permit(w) /\ Unobserved
    \/ \E w \in Workers : execute_set_running(w) /\ Unobserved
    \/ \E w \in Workers : execute_enter(w)
    \/ \E w \in Workers : ExecutorStep(w)
    \/ \E w \in Workers : execute_leave(w)
    \/ \E w \in Workers : execute_completed(w) /\ Unobserved
    \/ \E w \in Workers : execute_failed(w) /\ Unobserved
    \/ \E w \in Workers : execute_retry(w) /\ Unobserved
    \/ detached_run

SpecExecution == Init /\ [][ExecutionNext]_vars

\* The executor alone, entered by several worker threads at once.
ExecutorNext ==
    \/ \E i \in Invokers, task_type \in ExecTypes, timeout \in BOOLEAN :
          /\ invoked["noop"] + invoked["noop_fail"] + invoked["unregistered"] < MaxInvocations
          /\ call_execute(i, task_type, timeout)
    \/ \E i \in Invokers : ExecutorStep(i)
    \/ \E i \in Invokers : execute_ends(i)
    \/ detached_run

SpecExecutor == Init /\ [][ExecutorNext]_vars

\* The recurring loop of a started scheduler, with the caller registering and
\* cancelling jobs while the clock advances.
CronNext ==
    \/ \E job \in Jobs, interval \in 1..MaxTime, start_time \in {None} \cup (0..MaxTime) :
          schedule_recurring_task(job, interval, start_time)
    \/ \E job \in Jobs : cancel_recurring_task(job)
    \/ start /\ Unobserved
    \/ Tick /\ Unobserved
    \/ cron_pass
    \/ cron_skip
    \/ cron_find
    \/ nextId <= MaxTasks /\ cron_create
    \/ cron_schedule
    \/ cron_put
    \/ cron_sleep

SpecCron == Init /\ [][CronNext]_vars

\* ------------------------------------------------------------------ claims
\* Task id is on its way to a worker or with one: an entry of the heap, an
\* entry about to be put, or a worker holding it.
OnDispatcher(id) ==
    \/ \E e \in Entries(pq) : e.id = id
    \/ (caller.pc = "put" /\ caller.task = id)
    \/ (sched.pc = "put" /\ sched.task = id)
InWorker(w) == worker[w].pc \in {"handler", "returned", "failed", "retry"}

\* C1 (as claimed): every step that puts an entry on the Dispatcher puts a
\* task whose dependencies are all in the registry and Completed at that
\* moment.
C1_DependencyGating ==
    [][\A e \in Entries(pq') \ Entries(pq) : DependenciesCompleted(e.id)]_vars

\* C2 (as claimed): a task that is Completed has been Queued and then Running
\* since it was last Pending.  Stated for the tasks whose status the caller
\* never wrote: the scheduler alone must take them through Queued and Running.
C2_StateMachineLegality ==
    \A id \in tasks :
        (obj[id].status = COMPLETED /\ ~hist[id].manual) => hist[id].trail = "running"

\* C3: retry_count <= max_retries for every task ever created, whoever
\* retries it (the worker after a failure, the caller through retry_task).
C3_RetryBound ==
    \A id \in 1..(nextId - 1) : obj[id].retry_count <= obj[id].max_retries

\* C3's case: a worker has written Failed and is about to retry, and the
\* caller's retry_task got in first and used up the last retry.
C3_Witness ==
    \E w \in Workers :
        /\ worker[w].pc = "retry"
        /\ obj[worker[w].task].status = PENDING
        /\ obj[worker[w].task].max_retries > 0
        /\ obj[worker[w].task].retry_count = obj[worker[w].task].max_retries

\* Nothing refers to task id any more: it is not on the Dispatcher, not with
\* a worker and not registered for a time.  Without dependencies it is then
\* out of the promotion loop's reach, and only the caller can move it.
AtRest(id) == ~OnDispatcher(id) /\ ~HeldByWorker(id) /\ ~IsScheduled(id)

\* C4 (as claimed): a dispatched task whose handler always raises is retried
\* by the running scheduler alone until its retries are used up, so once
\* nothing refers to it any more it is Failed with retry_count = max_retries,
\* its handler having run max_retries + 1 times.  Stated for tasks without
\* dependencies that the caller has not touched since their dispatch.
C4_RetryToExhaustion ==
    \A id \in tasks :
        ( /\ running
          /\ hist[id].dispatched
          /\ hist[id].invocations > 0
          /\ ~hist[id].manual
          /\ HandlerRaises(obj[id].task_type)
          /\ obj[id].dependencies = {}
          /\ AtRest(id) )
        => /\ obj[id].status = FAILED
           /\ obj[id].retry_count = obj[id].max_retries
           /\ hist[id].invocations = obj[id].max_retries + 1

\* C5 (as claimed): a task cancelled while Pending and not yet with a worker
\* is never set Running, nor its handler run, afterwards (unless the caller
\* schedules it again).
C5_CancelledNeverDispatched ==
    \A w \in Workers : InWorker(w) => ~hist[worker[w].task].cancelledEarly

\* C8 (as claimed): the promotion loop leaves no eligible task behind: when an
\* iteration ends in its sleep, every Pending task of the registry whose
\* scheduled time is absent or has passed and whose dependencies are all
\* Completed is on the Dispatcher (or already with a worker).
ScheduledTimePassed(id) ==
    /\ obj[id].scheduled_time # None => now >= obj[id].scheduled_time
    /\ \A k \in 1..Len(scheduled) : scheduled[k].id = id => now >= scheduled[k].at
Eligible(id) ==
    /\ id \in tasks
    /\ obj[id].status = PENDING
    /\ ScheduledTimePassed(id)
    /\ DependenciesCompleted(id)
C8_PromotionOfEligible ==
    [][(sched.pc = "dep" /\ sched'.pc = "sleep")
          => \A id \in tasks : Eligible(id) => (OnDispatcher(id) \/ HeldByWorker(id))]_vars

\* C9 (as claimed): a Pending task all of whose dependencies have reached
\* Completed is dispatched by the next tick of the promotion loop, also when
\* a Completed dependency has since been cleared from the registry.
DependenciesReachedCompleted(id) ==
    /\ obj[id].dependencies # {}
    /\ \A d \in obj[id].dependencies :
           hist[d].everCompleted /\ (d \in tasks => obj[d].status = COMPLETED)
C9_DependencyRelease ==
    [][(sched.pc = "dep" /\ sched'.pc = "sleep")
          => \A id \in tasks :
                 (obj[id].status = PENDING /\ DependenciesReachedCompleted(id))
                 => (OnDispatcher(id) \/ HeldByWorker(id))]_vars

\* A worker's _dequeue_task returns a task in this step.
Dequeues(w) == worker[w].pc = "idle" /\ worker'[w].pc = "acquire"

\* C6 (as claimed): a worker never dequeues a task of priority Low while a
\* task of priority High is on the Dispatcher.
C6_HighBeforeLow ==
    [][\A w \in Workers :
           (Dequeues(w) /\ obj[worker'[w].task].priority = LOW)
           => \A f \in Entries(pq) : obj[f.id].priority # HIGH]_vars

\* C7 (as claimed): first in, first out within a priority: a worker never
\* dequeues a task while another task of the same priority that was put
\* earlier is on the Dispatcher.
C7_FifoWithinBand ==
    [][\A w \in Workers :
           Dequeues(w)
           => \A e \in Entries(pq) \ Entries(pq'), f \in Entries(pq') :
                  (f.id # e.id /\ obj[f.id].priority = obj[e.id].priority)
                  => e.ord <= f.ord]_vars

\* C10 (as claimed): no entry is put on the Dispatcher before the scheduled
\* time of its task, be it the scheduled_time given to create_task or the
\* time registered by schedule_task.
C10_ScheduledTimeGating ==
    [][\A e \in Entries(pq') \ Entries(pq) : ScheduledTimePassed(e.id)]_vars
\* A step that is an observed call of op on a task of the registry.
CallOn(op) == obs'.n # obs.n /\ obs'.op = op /\ obs'.id \in tasks

\* C11: retry(id) on an existing task returns true exactly when the task is
\* Failed with retry_count < max_retries; a true return leaves retry_count one
\* higher and the status Pending; a false return leaves both as they were.
C11_RetryOutcome ==
    [][CallOn("retry_task") =>
         LET id == obs'.id
         IN  /\ obs'.ret \in {"True", "False"}
             /\ obs'.ret = "True" <=>
                    (obj[id].status = FAILED /\ obj[id].retry_count < obj[id].max_retries)
             /\ obs'.ret = "True" =>
                    /\ obj'[id].retry_count = obj[id].retry_count + 1
                    /\ obj'[id].status = PENDING
             /\ obs'.ret = "False" =>
                    /\ obj'[id].retry_count = obj[id].retry_count
                    /\ obj'[id].status = obj[id].status]_vars

\* A retry that succeeded, seen right after it.
C11_Witness ==
    /\ obs.op = "retry_task" /\ obs.ret = "True"
    /\ obs.id \in tasks
    /\ obj[obs.id].status = PENDING /\ obj[obs.id].retry_count = 1

\* C12: cancel(id) on an existing task returns true and leaves the task
\* Cancelled exactly when it was Pending or Running; for any other status it
\* returns false without an exception, notifies no listener and leaves the
\* status and the result record as they were.
C12_CancelOutcome ==
    [][CallOn("cancel_task") =>
         LET id == obs'.id
         IN  /\ (obs'.ret = "True" /\ obj'[id].status = CANCELLED) <=>
                    obj[id].status \in {PENDING, RUNNING}
             /\ obj[id].status \notin {PENDING, RUNNING} =>
                    /\ obs'.ret = "False"
                    /\ obs'.notified = <<>>
                    /\ obj'[id].status = obj[id].status
                    /\ task_results'[id] = task_results[id]]_vars

\* A cancel that succeeded with a listener registered, seen right after it.
C12_Witness ==
    /\ obs.op = "cancel_task" /\ obs.ret = "True"
    /\ obs.id \in tasks
    /\ obj[obs.id].status = CANCELLED
    /\ task_results[obs.id].status = CANCELLED
    /\ obs.notified # <<>>

\* C13: delete(id) on a Running task returns false and keeps the task and its
\* result record; on an existing task in any other status it removes the task,
\* its result record and its entry in the registry's queue and returns true,
\* and get(id) then finds nothing.
C13_DeleteOutcome ==
    [][CallOn("delete_task") =>
         LET id == obs'.id
         IN  /\ obj[id].status = RUNNING =>
                    /\ obs'.ret = "False"
                    /\ id \in tasks'
                    /\ task_results'[id] = task_results[id]
                    /\ task_results'[id] # NoResult
                    /\ get_task(tasks', id) = id
             /\ obj[id].status # RUNNING =>
                    /\ obs'.ret = "True"
                    /\ id \notin tasks'
                    /\ task_results'[id] = NoResult
                    /\ ~InSeq(task_queue', id)
                    /\ get_task(tasks', id) = None]_vars

\* A Failed task, whose result record had been written, deleted while another
\* task is still queued in the registry.
C13_Witness ==
    /\ obs.op = "delete_task" /\ obs.ret = "True"
    /\ obs.id \notin tasks
    /\ obj[obs.id].status = FAILED
    /\ task_results[obs.id] = NoResult
    /\ task_queue # <<>>

\* A step that is an observed call of a registry operation on an id that is
\* not in the registry.
CallOnUnknown == obs'.n # obs.n /\ obs'.op \in RegistryOps /\ obs'.id \notin tasks

\* The registry is left as it was.
RegistryUnchanged == UNCHANGED <<tasks, obj, task_results, task_queue, nextId>>

\* C14: every registry operation that references an id not in the registry
\* (get, update_status, cancel, retry, delete, save_history) raises
\* TaskNotFound to its caller and leaves the registry unchanged.
C14_UnknownIdsRaise ==
    [][CallOnUnknown => obs'.ret = "TaskNotFoundError" /\ RegistryUnchanged]_vars

\* C14, amended: on an id not in the registry update_status, cancel and retry
\* raise TaskNotFound to their caller, get returns None, delete returns false
\* and save_history returns without effect; the registry is unchanged in
\* every case.
C14_UnknownIdOutcomes ==
    [][CallOnUnknown =>
         /\ obs'.op \in {"update_task_status", "cancel_task", "retry_task"} =>
                obs'.ret = "TaskNotFoundError"
         /\ obs'.op \in {"get_task", "save_task_history"} => obs'.ret = "None"
         /\ obs'.op = "delete_task" => obs'.ret = "False"
         /\ obs'.notified = <<>>
         /\ RegistryUnchanged]_vars

\* get on an id that is not in a registry that holds a task.
C14_Witness ==
    /\ obs.op = "get_task" /\ obs.ret = "None"
    /\ obs.id \notin tasks
    /\ tasks # {}

\* A step that is an observed call during which a listener raised.
ListenerRaised ==
    /\ obs'.n # obs.n
    /\ \E j \in 1..Len(obs'.notified) : ListenerRaises(obs'.notified[j].listener)

\* C15: when a listener raises while it is notified of a create or a status
\* change, the call returns normally to its caller, the task's new status and
\* result record are stored, and every registered listener is invoked for the
\* event.
C15_ListenerIsolation ==
    [][ListenerRaised =>
         LET id == obs'.id
             new == obs'.notified[1].new
         IN  /\ obs'.ret \in {"task_id", "None", "True"}
             /\ id \in tasks'
             /\ obj'[id].status = new
             /\ task_results'[id].status = new
             /\ \A k \in 1..Len(task_listeners) :
                    \E j \in 1..Len(obs'.notified) :
                        /\ obs'.notified[j].listener = task_listeners[k]
                        /\ obs'.notified[j].id = id
                        /\ obs'.notified[j].new = new]_vars

\* A status change notified first to a listener that raises and then to one
\* that does not.
C15_Witness ==
    /\ Len(obs.notified) = 2
    /\ obs.notified[1].event = "task_status_changed"
    /\ ListenerRaises(obs.notified[1].listener)
    /\ ~ListenerRaises(obs.notified[2].listener)
    /\ obj[obs.id].status = obs.notified[1].new

\* A step that is an observed update_status, cancel or retry which changes
\* the status of a task of the registry.
StatusChanged ==
    /\ obs'.n # obs.n
    /\ obs'.op \in {"update_task_status", "cancel_task", "retry_task"}
    /\ obs'.id \in tasks
    /\ obj'[obs'.id].status # obj[obs'.id].status

\* C16: each change of a task's status made by update_status, cancel or retry
\* invokes every registered listener once, during the call, with the task, its
\* old status and its new status.
C16_EveryStatusChangeNotified ==
    [][StatusChanged =>
         LET id == obs'.id
         IN  \A k \in 1..Len(task_listeners) :
                 Cardinality({j \in 1..Len(obs'.notified) :
                                 /\ obs'.notified[j].listener = task_listeners[k]
                                 /\ obs'.notified[j].id = id
                                 /\ obs'.notified[j].old = obj[id].status
                                 /\ obs'.notified[j].new = obj'[id].status}) = 1]_vars

\* C17: a task whose type has no registered handler is marked Failed when a
\* worker executes it and is never retried automatically: once Failed, its
\* status stays Failed and its retry_count stays as it is.
C17_MissingHandlerNotRetried ==
    [][\A id \in tasks :
           (~HasHandler(obj[id].task_type) /\ obj[id].status = FAILED) =>
               /\ obj'[id].status = FAILED
               /\ obj'[id].retry_count = obj[id].retry_count]_vars

\* No thread is inside TaskExecutor.execute.
NoneExecuting == \A i \in Invokers : exec[i].pc = "idle"

\* C19: after any set of execute invocations, concurrent ones included, for
\* every task type success + failed = total and total is the number of
\* execute invocations made for the type.
C19_StatisticsConsistency ==
    NoneExecuting =>
        \A task_type \in ExecTypes :
            LET stats == Stats(execution_stats, task_type)
            IN  /\ stats.success + stats.failed = stats.total
                /\ stats.total = invoked[task_type]

\* Thread i's join times out in this step.
TimesOut(i) == exec[i].pc = "join" /\ exec'[i].pc = "check" /\ exec'[i].timed_out

\* Thread i, whose join timed out, finishes its statistics update in this step.
CountsTimeout(i) == exec[i].timed_out /\ exec[i].pc = "count_store" /\ exec'[i].pc = "done"

\* A handler left running by a timeout returns or raises in this step.
DetachedEnds == detached' < detached

\* C18: when the timeout expires with the handler still running, the
\* invocation is reported as a failure and counted as failed, and what the
\* detached handler does later changes neither a task's status, nor a result
\* record, nor the statistics.
C18_TimeoutOutcome ==
    [][/\ \A i \in Invokers :
              TimesOut(i) => ~exec'[i].success
       /\ \A i \in Invokers :
              CountsTimeout(i) =>
                  LET before == Stats(execution_stats, exec[i].task_type)
                      after == Stats(execution_stats', exec[i].task_type)
                  IN  /\ after.failed = before.failed + 1
                      /\ after.success = before.success
       /\ DetachedEnds => UNCHANGED <<obj, task_results, execution_stats>>]_vars

\* The recurring loop is between two passes.
BetweenPasses == cron.pc \in {"top", "sleep"}

\* C20: each time the recurring loop finds an enabled job whose next_run has
\* passed, it creates exactly one task for the job, schedules it, and, before
\* its next pass, advances the job's next_run to the previous value plus the
\* interval.
C20_RecurringMaterialization ==
    BetweenPasses =>
        \A job \in Jobs :
            cron.due[job] # None =>
                /\ cron.made[job] = 1
                /\ cron_jobs[job].next_run = cron.due[job] + cron_jobs[job].interval

\* A step that is an observed cancel_recurring_task.
CancelsJob == obs'.n # obs.n /\ obs'.op = "cancel_recurring_task"

\* A job that cancel_recurring_task has disabled.
Disabled(job) == cron_jobs[job].present /\ ~cron_jobs[job].enabled

\* A step in which the recurring loop creates a task for the job.
CreatesFor(job) == cron.pc = "create" /\ cron.job = job /\ nextId' # nextId

\* What cancel_recurring_task returns and writes.
CancelOutcome ==
    CancelsJob =>
        LET job == obs'.id
        IN  IF cron_jobs[job].present
            THEN /\ obs'.ret = "True"
                 /\ ~cron_jobs'[job].enabled
            ELSE /\ obs'.ret = "False"
                 /\ UNCHANGED <<cron_jobs, cron, sched_vars>>

\* C21: cancel_recurring_task on a registered job returns true and disables
\* it, and from then on no task is created for the job; on an unknown id it
\* returns false and changes nothing.
C21_DisabledJobCreatesNothing ==
    [][/\ CancelOutcome
       /\ \A job \in Jobs : Disabled(job) => ~CreatesFor(job)]_vars

\* C21, amended: cancel_recurring_task on a registered job returns true and
\* disables it, and no pass of the recurring loop that begins after that
\* creates a task for the job (the pass under way may still create one); on an
\* unknown id it returns false and changes nothing.
C21_LaterPassesCreateNothing ==
    [][/\ CancelOutcome
       /\ \A job \in Jobs : CreatesFor(job) => job \notin cron.since]_vars

\* A pass that began after the job was disabled has gone over it and made
\* nothing.
C21_Witness ==
    /\ obs.op = "cancel_recurring_task" /\ obs.ret = "True"
    /\ \E job \in Jobs :
           /\ Disabled(job)
           /\ job \in cron.since
           /\ cron.pc = "sleep"
           /\ cron.made[job] = 0
           /\ cron.now >= cron_jobs[job].next_run

\* The worker pool: tasks without dependencies are created, scheduled,
\* deleted while they wait, and run by the workers, which retry those that
\* fail (max_retries matters only to a task whose handler raises).
PoolNext ==
    \/ \E task_type \in TaskTypes :
          /\ nextId <= MaxTasks
          /\ create_task(NORMAL, IF HandlerRaises(task_type) THEN MaxRetries ELSE 0, {}, None,
                         task_type)
          /\ Unobserved
    \/ \E id \in TaskIds : delete_task(id) /\ Unobserved
    \/ \E id \in TaskIds : clock < MaxPuts /\ schedule_task_now(id) /\ Unobserved
    \/ schedule_task_put /\ Unobserved
    \/ start /\ Unobserved
    \/ WorkerStep

SpecPool == Init /\ [][PoolNext]_vars

\* The workers between self._available_workers.acquire() and the release of
\* the finally: those inside _execute_task.
InProgress ==
    {w \in Workers : worker[w].pc \in {"start", "handler", "executing", "returned", "failed", "retry"}}

lock_release_Never(w) == UNCHANGED lock

\* The exit of with self._lock.
lock_release(w) == lock' = None

\* The worker's next statement is a TaskManager method that takes the lock:
\* update_task_status, or retry_task once retry_count < max_retries was found.
AtRegistryCall(w) ==
    \/ worker[w].pc \in {"start", "returned", "failed"}
    \/ /\ worker[w].pc = "retry"
       /\ obj[worker[w].task].retry_count < obj[worker[w].task].max_retries

\* The entry of with self._lock in a worker's call.
lock_acquire(w) ==
    /\ AtRegistryCall(w)
    /\ lock = None
    /\ lock' = w
    /\ UNCHANGED sched_vars
    /\ UNCHANGED <<threads, task_listeners, obs, exec_vars, cron_vars>>

\* The body of the method the worker is in, and the exit of its with.
locked_call(w) ==
    /\ lock = w
    /\ \/ execute_set_running(w)
       \/ execute_completed(w)
       \/ execute_failed(w)
       \/ execute_retry(w)
    /\ lock_release(w)
    /\ UNCHANGED <<threads, task_listeners, obs, exec_vars, cron_vars>>

\* if task.retry_count < task.max_retries is false: no method is called.
retry_skipped(w) ==
    /\ worker[w].pc = "retry"
    /\ ~AtRegistryCall(w)
    /\ execute_retry(w)
    /\ Unobserved

\* A method of the caller's thread, from the entry of its with to its exit.
Unlocked == lock = None /\ Unobserved

\* The workers and a caller contending for the registry lock.
LockNext ==
    \/ \E task_type \in TaskTypes :
          /\ nextId <= MaxTasks
          /\ create_task(NORMAL, IF HandlerRaises(task_type) THEN MaxRetries ELSE 0, {}, None,
                         task_type)
          /\ Unlocked
    \/ \E id \in TaskIds : delete_task(id) /\ Unlocked
    \/ \E id \in TaskIds : clock < MaxPuts /\ schedule_task_now(id) /\ Unobserved
    \/ schedule_task_put /\ Unobserved
    \/ start /\ Unobserved
    \/ \E w \in Workers : dequeue_task(w) /\ Unobserved
    \/ \E w \in Workers : acquire_permit(w) /\ Unobserved
    \/ \E w \in Workers : run_handler(w) /\ Unobserved
    \/ \E w \in Workers : lock_acquire(w)
    \/ \E w \in Workers : locked_call(w)
    \/ \E w \in Workers : retry_skipped(w)

SpecLock == Init /\ [][LockNext]_vars

\* The worker waits on the Dispatcher or for a permit, or is in its handler.
OutsideRegistry(w) == worker[w].pc \in {"off", "idle", "acquire", "handler", "executing"}

\* C23: a worker that executes a handler, or waits on the Dispatcher or for a
\* permit, does not hold the registry lock; a worker that holds it gives it
\* back with its next step, the registry read or write it took it for.
C23_HandlerOutsideLock ==
    /\ [](\A w \in Workers : OutsideRegistry(w) => lock # w)
    /\ [][\A w \in Workers : (lock = w /\ worker'[w] # worker[w]) => lock' = None]_vars

\* A worker is in its handler, having held the lock for the update to Running,
\* and the lock is free.
C23_Witness ==
    \E w \in Workers :
        /\ worker[w].pc = "handler"
        /\ obj[worker[w].task].status = RUNNING
        /\ lock = None

\* ------------------------------------------------------------- statistics
\* The statuses get_statistics counts, by the key of its dict.
Counted == {PENDING, QUEUED, RUNNING, COMPLETED, FAILED, CANCELLED}

\* The tasks of the registry in a status.
HasStatus(status) == {id \in tasks : obj[id].status = status}

\* TaskManager._running_tasks: created empty, and nothing ever puts a thread
\* into it.
running_tasks == {}

\* get_statistics(): the dict literal is evaluated entry by entry.  The entry
\* 'queued' compares each task of _tasks with TaskStatus.QUEUED, a name the
\* enum does not have: with a task in the registry the comparison raises
\* AttributeError, with none it is never evaluated.
get_statistics ==
    IF tasks # {}
    THEN [raised |-> TRUE, total |-> None, count |-> [status \in Counted |-> None],
          queue_length |-> None, running_threads |-> None]
    ELSE [raised |-> FALSE, total |-> Cardinality(tasks),
          count |-> [status \in Counted |-> Cardinality(HasStatus(status))],
          queue_length |-> Len(task_queue), running_threads |-> Cardinality(running_tasks)]

\* get_statistics() called by the caller; the registry is only read.
call_get_statistics ==
    /\ caller.pc = "idle"
    /\ obs.n < MaxCalls
    /\ obs' = Observed("get_statistics", None,
                       IF get_statistics.raised THEN "AttributeError" ELSE "stats", <<>>)
    /\ UNCHANGED sched_vars
    /\ UNCHANGED <<threads, lock, task_listeners, exec_vars, cron_vars>>

\* The registry under a caller that creates tasks, changes their status and
\* asks for the statistics.
StatisticsNext ==
    \/ \E max_retries \in {0, MaxRetries} : nextId <= MaxTasks /\ call_create_task(NORMAL, max_retries)
    \/ \E id \in TaskIds, status \in RegistryStatuses : call_update_task_status(id, status)
    \/ \E id \in TaskIds : call_cancel_task(id)
    \/ call_get_statistics

SpecStatistics == Init /\ [][StatisticsNext]_vars

\* C24: get_statistics returns, without an error, a record whose total is the
\* number of tasks of the registry and whose count for each of pending,
\* queued, running, completed, failed and cancelled is the number of tasks in
\* that status.
C24_StatisticsCounts ==
    obs.op = "get_statistics" =>
        /\ obs.ret = "stats"
        /\ ~get_statistics.raised
        /\ get_statistics.total = Cardinality(tasks)
        /\ \A status \in Counted : get_statistics.count[status] = Cardinality(HasStatus(status))

\* ------------------------------------------------- clear_completed_tasks
\* clear_completed_tasks() called by the caller: it returns the number of
\* tasks it selected, 0 when there is none, and notifies no listener.
call_clear_completed_tasks ==
    /\ obs.n < MaxCalls
    /\ IF Cleared # {}
       THEN clear_completed_tasks
       ELSE caller.pc = "idle" /\ UNCHANGED sched_vars
    /\ obs' = [Observed("clear_completed_tasks", None, "count", <<>>)
                  EXCEPT !.value = Cardinality(Cleared)]
    /\ UNCHANGED <<threads, lock, task_listeners, exec_vars, cron_vars>>

\* The registry under a caller that creates tasks, changes their status and
\* clears the finished ones.
ClearNext ==
    \/ \E max_retries \in {0, MaxRetries} : nextId <= MaxTasks /\ call_create_task(NORMAL, max_retries)
    \/ \E id \in TaskIds, status \in RegistryStatuses : call_update_task_status(id, status)
    \/ \E id \in TaskIds : call_cancel_task(id)
    \/ call_clear_completed_tasks

SpecClear == Init /\ [][ClearNext]_vars

\* A step that is an observed clear_completed_tasks.
Clears == obs'.n # obs.n /\ obs'.op = "clear_completed_tasks"

MarksRunning(id) ==
    \E w \in Workers :
        /\ worker[w].pc = "start"
        /\ worker[w].task = id
        /\ worker'[w].pc = "handler"

\* C26: a task on the Dispatcher is Queued before a worker marks it Running,
\* and a task that is Running, or in a later status, never goes back to
\* Queued.
C26_QueuedBeforeRunning ==
    [][\A id \in TaskIds :
          /\ MarksRunning(id) => obj[id].status = QUEUED
          /\ obj[id].status \in {RUNNING, COMPLETED, FAILED, CANCELLED} => obj'[id].status # QUEUED]_vars

\* ----------------------------------------------------------------- stop()
\* stop(): a scheduler that runs has _running set to False (the join of the
\* worker threads, bounded by its timeout, only delays the caller).
stop ==
    /\ running
    /\ running' = FALSE
    /\ UNCHANGED <<nextId, tasks, obj, task_results, task_queue, pq, nput, clock,
                   scheduled, now, permits, worker, sched, caller, hist>>

\* start() has not been called: no thread exists.
NeverStarted == \A w \in Workers : worker[w].pc = "off"

\* stop() has been called, and start() not again.
Stopped == ~running /\ ~NeverStarted

\* The worker loop with a while True in place of while self._running.
worker_check_Forever(w) ==
    /\ worker[w].pc = "idle"
    /\ worker' = SetWorker(w, "get", None)
    /\ UNCHANGED <<nextId, tasks, obj, task_results, task_queue, pq, nput, clock,
                   scheduled, now, running, permits, sched, caller, hist>>

\* while self._running, found true: the worker enters _dequeue_task.
worker_check(w) ==
    /\ running
    /\ worker[w].pc = "idle"
    /\ worker' = SetWorker(w, "get", None)
    /\ UNCHANGED <<nextId, tasks, obj, task_results, task_queue, pq, nput, clock,
                   scheduled, now, running, permits, sched, caller, hist>>

\* self._priority_queue.get(timeout=1) returns an entry; an exception of the
\* pop is swallowed, None is returned and the loop goes back to its while.
worker_get(w) ==
    /\ worker[w].pc = "get"
    /\ pq # <<>>
    /\ LET r == heappop(pq)
       IN  /\ pq' = r.heap
           /\ IF r.ok
              THEN /\ worker' = SetWorker(w, "acquire", r.item.id)
                   /\ hist' = [hist EXCEPT ![r.item.id].dispatched = TRUE]
              ELSE /\ worker' = SetWorker(w, "idle", None)
                   /\ UNCHANGED hist
    /\ UNCHANGED <<nextId, tasks, obj, task_results, task_queue, nput, clock, scheduled,
                   now, running, permits, sched, caller>>

\* The get times out on an empty heap: back to the while.
worker_timeout(w) ==
    /\ worker[w].pc = "get"
    /\ pq = <<>>
    /\ worker' = SetWorker(w, "idle", None)
    /\ UNCHANGED <<nextId, tasks, obj, task_results, task_queue, pq, nput, clock,
                   scheduled, now, running, permits, sched, caller, hist>>

\* while self._running, found false: the worker loop returns.
worker_exit(w) ==
    /\ ~running
    /\ worker[w].pc = "idle"
    /\ worker' = SetWorker(w, "exited", None)
    /\ UNCHANGED <<nextId, tasks, obj, task_results, task_queue, pq, nput, clock,
                   scheduled, now, running, permits, sched, caller, hist>>

\* while self._running of _scheduler_loop, found false.
scheduler_exit ==
    /\ ~running
    /\ sched.pc = "time"
    /\ sched' = [sched EXCEPT !.pc = "exited"]
    /\ UNCHANGED <<nextId, tasks, obj, task_results, task_queue, pq, nput, clock,
                   scheduled, now, running, permits, worker, caller, hist>>

\* while self._running of _cron_loop, found false.
cron_exit ==
    /\ Stopped
    /\ cron.pc \in {"off", "top"}
    /\ cron' = [cron EXCEPT !.pc = "exited"]
    /\ UNCHANGED sched_vars
    /\ UNCHANGED <<threads, lock, task_listeners, obs, exec_vars, cron_jobs>>

\* One step of a worker thread.
WorkerLoop(w) ==
    \/ worker_check(w) /\ Unobserved
    \/ worker_get(w) /\ Unobserved
    \/ worker_timeout(w) /\ Unobserved
    \/ acquire_permit(w) /\ Unobserved
    \/ execute_set_running(w) /\ Unobserved
    \/ run_handler(w) /\ Unobserved
    \/ execute_completed(w) /\ Unobserved
    \/ execute_failed(w) /\ Unobserved
    \/ execute_retry(w) /\ Unobserved
    \/ worker_exit(w) /\ Unobserved

\* One step of the promotion thread (no task has a scheduled time or a
\* dependency here: its iterations enqueue nothing).
PromotionLoop ==
    \/ check_scheduled_tasks /\ Unobserved
    \/ check_task_dependencies /\ Unobserved
    \/ scheduler_sleep /\ Unobserved
    \/ scheduler_exit /\ Unobserved

\* One step of the recurring thread.  A pass begins only while the ids left
\* allow every job to create its task.
CronLoop ==
    \/ nextId + MaxJobs - 1 <= MaxTasks /\ cron_pass
    \/ cron_skip
    \/ cron_find
    \/ cron_create
    \/ cron_schedule
    \/ cron_put
    \/ cron_sleep
    \/ cron_exit

\* A scheduler that is set up (tasks created and each scheduled at once,
\* recurring jobs registered), started once and stopped.
StopNext ==
    \/ \E task_type \in TaskTypes :
          /\ NeverStarted /\ nextId <= MaxTasks /\ clock = nextId - 1
          /\ create_task(NORMAL, IF HandlerRaises(task_type) THEN MaxRetries ELSE 0, {}, None,
                         task_type)
          /\ Unobserved
    \/ NeverStarted /\ clock < nextId - 1 /\ schedule_task_now(nextId - 1) /\ Unobserved
    \/ NeverStarted /\ schedule_task_put /\ Unobserved
    \/ \E job \in Jobs : NeverStarted /\ schedule_recurring_task(job, 1, None)
    \/ NeverStarted /\ caller.pc = "idle" /\ start /\ Unobserved
    \/ stop /\ Unobserved
    \/ \E w \in Workers : WorkerLoop(w)
    \/ PromotionLoop
    \/ CronLoop

\* Every thread that can take a step eventually takes one (the handlers in
\* flight return); the caller is under no obligation.
StopFairness ==
    /\ \A w \in Workers : WF_vars(WorkerLoop(w))
    /\ WF_vars(PromotionLoop)
    /\ WF_vars(CronLoop)

SpecStop == Init /\ [][StopNext]_vars /\ StopFairness

\* Every loop has returned.
AllExited ==
    /\ \A w \in Workers : worker[w].pc = "exited"
    /\ sched.pc = "exited"
    /\ cron.pc = "exited"

DepthNext ==
    \/ PoolNext
    \/ call_get_statistics

SpecDepth == Init /\ [][DepthNext]_vars

\* The tasks of the registry that wait to be dispatched: Pending (or Queued)
\* and in no worker's hands.
Waiting ==
    {id \in tasks : /\ obj[id].status \in {PENDING, QUEUED}
                    /\ \A w \in Workers : worker[w].task # id}

\* The tasks a worker is executing.
Executing == {id \in tasks : \E w \in Workers : worker[w].task = id /\ worker[w].pc \in {"handler", "executing"}}

\* C28: the statistics are reported, the queue depth they are built from
\* counts exactly the tasks that wait to be dispatched, and the active-worker
\* count is the number of tasks being executed by workers.
C28_QueueDepthAndWorkers ==
    /\ obs.op = "get_statistics" => obs.ret = "stats"
    /\ Len(task_queue) = Cardinality(Waiting)
    /\ \A k \in 1..Len(task_queue) : task_queue[k] \in Waiting
    /\ Cardinality(running_tasks) = Cardinality(Executing)

\* C29: for every task of the registry the status of its result record is the
\* task's status, and the record has an end time only if that status is
\* Completed, Failed or Cancelled.
C29_TaskResultAgreement ==
    \A id \in tasks :
        /\ task_results[id].status = obj[id].status
        /\ task_results[id].ended => obj[id].status \in {COMPLETED, FAILED, CANCELLED}

\* The entries of the heap that hold the task.
EntriesOf(id) == {k \in 1..Len(pq) : pq[k].id = id}

\* The workers whose handler call for the task is in progress.
HandlersOf(id) == {w \in Workers : worker[w].task = id /\ worker[w].pc \in {"handler", "executing"}}

\* C30: a task has at most one entry on the Dispatcher at any time, and its
\* handler is never executing in two workers at once.
C30_NoDuplicateDispatch ==
    \A id \in TaskIds :
        /\ Cardinality(EntriesOf(id)) <= 1
        /\ Cardinality(HandlersOf(id)) <= 1

\* The worker pool under a caller that also cancels tasks, waiting or running.
CancelNext ==
    \/ PoolNext
    \/ \E id \in TaskIds : cancel_task(id) /\ Unobserved

SpecCancel == Init /\ [][CancelNext]_vars

\* The task was cancelled while a worker was executing it: it is Cancelled,
\* and a worker is past its write of Running for it.
CancelledWhileRunning(id) ==
    /\ id \in tasks
    /\ obj[id].status = CANCELLED
    /\ \E w \in Workers : worker[w].task = id /\ worker[w].pc \in {"handler", "returned", "failed", "retry"}

\* C31: a task cancelled while Running stays Cancelled however its handler
\* ends: the worker's write-back does not make it Completed or Failed, and no
\* automatic retry makes it Pending.
C31_CancelledIsFinal ==
    [][\A id \in TaskIds : CancelledWhileRunning(id) => obj'[id].status = CANCELLED]_vars

\* Dispatch order with Urgent tasks: as PriorityNext, for tasks of every
\* priority of the enum.
UrgentNext ==
    \/ \E priority \in {LOW, NORMAL, HIGH, URGENT} :
          /\ ~running /\ nextId <= MaxTasks /\ clock = nextId - 1
          /\ create_task(priority, 0, {}, None, "noop")
          /\ Unobserved
    \/ ~running /\ clock < nextId - 1 /\ schedule_task_now(nextId - 1) /\ Unobserved
    \/ schedule_task_put /\ Unobserved
    \/ start /\ Unobserved
    \/ Tick /\ Unobserved
    \/ \E w \in Workers : dequeue_task(w) /\ Unobserved
    \/ \E w \in Workers : acquire_permit(w) /\ Unobserved
    \/ \E w \in Workers : execute_set_running(w) /\ Unobserved
    \/ \E w \in Workers : run_handler(w) /\ Unobserved
    \/ \E w \in Workers : execute_completed(w) /\ Unobserved

SpecUrgent == Init /\ [][UrgentNext]_vars

\* C32: a worker never dequeues a task of priority High, Normal or Low while
\* a task of priority Urgent is on the Dispatcher.
C32_UrgentFirst ==
    [][\A w \in Workers :
           (Dequeues(w) /\ obj[worker'[w].task].priority # URGENT)
           => \A f \in Entries(pq) : obj[f.id].priority # URGENT]_vars

\* C33: a task whose handler a worker is executing is in the registry: neither
\* delete_task nor clear_completed_tasks removes it.
C33_NoDeletionUnderExecution ==
    \A id \in TaskIds : HandlersOf(id) # {} => id \in tasks

\* ------------------------------------------------- threads of start/stop
\* The loop threads are counted over every start(): a thread is alive from
\* the start() that created it until its while self._running finds the flag
\* false.  stop() writes the flag and, at most, joins the worker threads of
\* the last start() for a bounded time; it waits for no other thread.

\* start(): when _running is set it returns at once; otherwise it sets the
\* flag and creates one promotion thread, max_workers worker threads and one
\* recurring thread.
call_start ==
    /\ threads.starts < MaxStarts
    /\ IF running
       THEN /\ threads' = [threads EXCEPT !.starts = @ + 1]
            /\ UNCHANGED running
       ELSE /\ running' = TRUE
            /\ threads' = [starts |-> threads.starts + 1,
                           worker |-> threads.worker + MaxWorkers,
                           scheduler |-> threads.scheduler + 1,
                           cron |-> threads.cron + 1]
    /\ UNCHANGED <<nextId, tasks, obj, task_results, task_queue, pq, nput, clock,
                   scheduled, now, permits, worker, sched, caller, hist>>
    /\ UNCHANGED <<task_listeners, obs, exec_vars, cron_vars, lock>>

\* A loop thread of the kind reaches its while self._running and finds the
\* flag false: it returns.
thread_exit(kind) ==
    /\ ~running
    /\ threads[kind] > 0
    /\ threads' = [threads EXCEPT ![kind] = @ - 1]
    /\ UNCHANGED sched_vars
    /\ UNCHANGED <<task_listeners, obs, exec_vars, cron_vars, lock>>

\* Any sequence of start() and stop() calls, with the threads reaching their
\* while at any time.
ThreadsNext ==
    \/ call_start
    \/ stop /\ UNCHANGED <<task_listeners, obs, exec_vars, cron_vars, lock, threads>>
    \/ \E kind \in {"worker", "scheduler", "cron"} : thread_exit(kind)

SpecThreads == Init /\ [][ThreadsNext]_vars

\* C34: at any time at most max_workers worker loops, one promotion loop and
\* one recurring loop are alive.
C34_LoopPopulation ==
    /\ threads.worker <= MaxWorkers
    /\ threads.scheduler <= 1
    /\ threads.cron <= 1

\* One step of a worker thread of a scheduler that keeps running.
DispatchLoop(w) ==
    \/ dequeue_task(w) /\ Unobserved
    \/ acquire_permit(w) /\ Unobserved
    \/ execute_set_running(w) /\ Unobserved
    \/ run_handler(w) /\ Unobserved
    \/ execute_completed(w) /\ Unobserved
    \/ execute_failed(w) /\ Unobserved
    \/ execute_retry(w) /\ Unobserved

\* A scheduler that is started and never stopped, with finitely many tasks,
\* each created and enqueued at once by the caller, who makes no other call;
\* the system clock advances at any time.
DispatchNext ==
    \/ \E task_type \in TaskTypes :
          /\ nextId <= MaxQueued /\ clock = nextId - 1
          /\ create_task(NORMAL, IF HandlerRaises(task_type) THEN MaxRetries ELSE 0, {}, None,
                         task_type)
          /\ Unobserved
    \/ clock < nextId - 1 /\ schedule_task_now(nextId - 1) /\ Unobserved
    \/ schedule_task_put /\ Unobserved
    \/ start /\ Unobserved
    \/ Tick /\ Unobserved
    \/ \E w \in Workers : DispatchLoop(w)

\* Every worker thread that can take a step eventually takes one: every
\* handler invocation returns, and a started put is completed.
DispatchFairness ==
    /\ \A w \in Workers : WF_vars(DispatchLoop(w))
    /\ WF_vars(schedule_task_put /\ Unobserved)
    /\ WF_vars(start /\ Unobserved)

SpecDispatch == Init /\ [][DispatchNext]_vars /\ DispatchFairness

\* C35: no entry leaves the Dispatcher other than into the hands of the
\* worker that dequeues it, and every task on the Dispatcher eventually
\* reaches a terminal status, Completed or Failed.
C35_DispatcherLiveness ==
    /\ [][\A e \in Entries(pq) \ Entries(pq') :
              \E w \in Workers : Dequeues(w) /\ worker'[w].task = e.id]_vars
    /\ \A id \in TaskIds :
           (\E e \in Entries(pq) : e.id = id) ~> (obj[id].status \in {COMPLETED, FAILED})

====
